---- MODULE Spec2Model ----
(***************************************************************************)
(* Decision-and-risk core of the MEME trading bot: risk governor, strategy *)
(* engine (filters, decision cards, exit rules), paper trading engine and  *)
(* the orchestrator's queue drain and periodic tasks.                      *)
(*                                                                         *)
(* Numbers.  The source computes in IEEE doubles; the model uses integers  *)
(* in fixed point and floors every division:                               *)
(*   - percentages are in hundredths of a percent (PCT_SCALE), so the      *)
(*     default dailyMaxDrawdownPct 2.0 is 200 and stopLossPct 25 is 2500;  *)
(*   - token amounts are in hundredths of a token, so the closing          *)
(*     tolerance 0.01 of executeSell is 1 (EPSILON_TOKENS);                *)
(*   - prices are in units of PRICE_ONE per placeholder price 0.000001;    *)
(*   - SOL amounts are in (price unit * token unit);                       *)
(*   - random draws in [0,1) are replaced by choices from small sets.      *)
(* Time is Date.now() in milliseconds, counted from the local midnight of  *)
(* the day the bot starts.                                                 *)
(***************************************************************************)
EXTENDS Integers, Sequences, FiniteSets, TLC

\* ---------------------------------------------------------------- bounds
MaxClockSteps == 3
MaxTicks == 2
MaxOrders == 4
MaxIncidents == 2
MaxDecisions == 3

\* ------------------------------------------------------------ fixed point
PCT_SCALE == 100
PRICE_ONE == 100
EPSILON_TOKENS == 1
NULL == -1

HOUR_MS == 3600000
DAY_MS == 24 * HOUR_MS
MINUTE_MS == 60000
ClockStep == 12 * HOUR_MS

Min(a, b) == IF a < b THEN a ELSE b
Max(a, b) == IF a > b THEN a ELSE b
Abs(a) == IF a < 0 THEN 0 - a ELSE a
\* Math.round on a non-negative quotient n/d
RoundDiv(n, d) == (2 * n + d) \div (2 * d)
\* (a / b) * 100 as a percentage in fixed point
Pct(a, b) == (a * 100 * PCT_SCALE) \div b
\* (a / b) * 100 <= limit as the doubles decide it, without rounding: a / 0 is
\* -Infinity, NaN or Infinity
PctAtMost(a, b, limit) ==
  IF b > 0 THEN a * 100 * PCT_SCALE <= limit * b
  ELSE IF b < 0 THEN a * 100 * PCT_SCALE >= limit * b
  ELSE a < 0

Range(s) == {s[i] : i \in 1..Len(s)}

RECURSIVE SumSeq(_)
SumSeq(s) == IF s = <<>> THEN 0 ELSE Head(s) + SumSeq(Tail(s))

RECURSIVE Reverse(_)
Reverse(s) == IF s = <<>> THEN <<>> ELSE Append(Reverse(Tail(s)), Head(s))

\* ------------------------------------------------------------------ config
\* DEFAULT_CONFIG of defaults.ts, in fixed point.
DEFAULT_CONFIG ==
  [ mode |-> "PAPER",
    regimeScoreThreshold |-> 40,
    minLiquidityDepthSol |-> 5,
    maxTop10HolderPct |-> 70,
    minUniqueBuyersPerMin |-> 3,
    minBreadthScore |-> 30,
    maxSpreadBps |-> 500,
    maxEstimatedSlippageBps |-> 300,
    minSecondsAfterGraduation |-> 30,
    maxSecondsAfterGraduation |-> 600,
    riskPerTradePct |-> 20,
    maxExposurePct |-> 100,
    dailyMaxDrawdownPct |-> 200,
    maxTradesPerHour |-> 3,
    maxTradesPerDay |-> 10,
    maxConsecutiveLosses |-> 3,
    stopLossPct |-> 2500,
    takeProfitLevels |-> << [pctGain |-> 5000, sellPct |-> 30],
                            [pctGain |-> 10000, sellPct |-> 30] >>,
    trailingStopPct |-> 1500,
    timeStopMinutes |-> 60,
    paperStartingEquity |-> 1000,
    paperSlippageMultiplier |-> 1500,
    tradePreGraduation |-> FALSE,
    tradePostGraduation |-> TRUE ]

\* loadConfig: the defaults merged with the operator's overrides.  The
\* overrides make every limit and exit rule reachable within the bounds:
\* the paper price walk moves a price by at most 5.5 percent per tick.
loadConfig ==
  [ DEFAULT_CONFIG EXCEPT
      !.riskPerTradePct = 1000,
      !.maxExposurePct = 2500,
      !.dailyMaxDrawdownPct = 1500,
      !.maxTradesPerHour = 2,
      !.maxTradesPerDay = 3,
      !.maxConsecutiveLosses = 1,
      !.stopLossPct = 300,
      !.takeProfitLevels = << [pctGain |-> 400, sellPct |-> 30],
                              [pctGain |-> 800, sellPct |-> 30] >>,
      !.trailingStopPct = 300,
      !.paperStartingEquity = 100000,
      !.minSecondsAfterGraduation = 0,
      !.tradePreGraduation = TRUE ]

\* ------------------------------------------------------- state variables
VARIABLES
  now,              \* Date.now()
  riskState,        \* risk-governor.ts: the module-level riskState
  positions,        \* database: table positions, in insertion order (id = index)
  orders,           \* database: table orders, in insertion order
  incidents,        \* database: table incidents, in insertion order
  decisions,        \* database: table decisions, in insertion order
  botState,         \* ApiServer.botState
  market,           \* features/engine.ts: what the event buffers currently yield per mint
  evaluationQueue,  \* TradingBot.evaluationQueue
  isProcessing,     \* TradingBot.isProcessing
  drain,            \* the processQueue call suspended in executeBuy, or NoFrame
  ticks,            \* position-monitor callbacks suspended in executeSell
  tpFired,          \* history: per position id, the take-profit levels sold so far
  input,            \* arguments of the function applied by a function-level specification
  output            \* its result

vars == << now, riskState, positions, orders, incidents, decisions, botState,
           market, evaluationQueue, isProcessing, drain, ticks,
           tpFired, input, output >>

NoFrame == [pc |-> "idle"]

\* --------------------------------------------------------------- database
\* getOpenPositions: status IN ('OPEN','PARTIALLY_CLOSED') ORDER BY entry_time
\* DESC.  Ids follow insertion order and entry times never decrease with the
\* id, so the newest entry is the highest id.
getOpenPositions(ps) ==
  Reverse(SelectSeq(ps, LAMBDA p : p.status \in {"OPEN", "PARTIALLY_CLOSED"}))

\* savePosition: INSERT ... ON CONFLICT(id) DO UPDATE of the mutable columns.
savePosition(ps, pos) ==
  IF pos.id \in 1..Len(ps)
  THEN [ps EXCEPT ![pos.id] =
          [@ EXCEPT !.status = pos.status,
                    !.currentPrice = pos.currentPrice,
                    !.remainingTokens = pos.remainingTokens,
                    !.totalTokensSold = pos.totalTokensSold,
                    !.realizedPnlSol = pos.realizedPnlSol,
                    !.unrealizedPnlSol = pos.unrealizedPnlSol,
                    !.unrealizedPnlPct = pos.unrealizedPnlPct,
                    !.trailingStopPrice = pos.trailingStopPrice,
                    !.highWaterMark = pos.highWaterMark,
                    !.lastUpdateTime = pos.lastUpdateTime,
                    !.takeProfitLevels = pos.takeProfitLevels,
                    !.exitReason = pos.exitReason]]
  ELSE Append(ps, pos)

\* saveOrder: every order of the paper engine has a fresh uuid, so the
\* ON CONFLICT(id) branch is never taken and the row is inserted.  The
\* idempotency keys of the orders are left out here: calls of the engine that
\* are a millisecond or more apart carry different keys (InsertOrder below
\* has the keys and the UNIQUE constraint).
saveOrder(os, order) == Append(os, order)

\* saveIncident: plain INSERT.
saveIncident(is, incident) == Append(is, incident)

\* saveDecision: plain INSERT.
saveDecision(ds, card) == Append(ds, card)

\* local midnight before t
StartOfDay(t) == t - (t % DAY_MS)

ConfirmedBuysSince(os, t) ==
  Len(SelectSeq(os, LAMBDA o : o.createdAt > t /\ o.status = "CONFIRMED" /\ o.side = "BUY"))

getTodayTradeCount(os, t) == ConfirmedBuysSince(os, StartOfDay(t))

getHourTradeCount(os, t) == ConfirmedBuysSince(os, t - HOUR_MS)

\* the CLOSED positions, most recently updated first (ties: highest id first)
RECURSIVE ClosedByRecency(_, _)
ClosedByRecency(ps, ids) ==
  IF ids = {} THEN <<>>
  ELSE LET m == CHOOSE i \in ids : \A j \in ids :
                  \/ ps[i].lastUpdateTime > ps[j].lastUpdateTime
                  \/ ps[i].lastUpdateTime = ps[j].lastUpdateTime /\ i >= j
       IN <<ps[m]>> \o ClosedByRecency(ps, ids \ {m})

RECURSIVE LeadingLosses(_)
LeadingLosses(s) ==
  IF s = <<>> THEN 0
  ELSE IF Head(s).realizedPnlSol < 0 THEN 1 + LeadingLosses(Tail(s)) ELSE 0

\* getConsecutiveLosses: ... WHERE status = 'CLOSED' ORDER BY last_update_time
\* DESC LIMIT 20, counted until the first non-losing row.
getConsecutiveLosses(ps) ==
  LET closed == ClosedByRecency(ps, {i \in 1..Len(ps) : ps[i].status = "CLOSED"})
  IN LeadingLosses(SubSeq(closed, 1, Min(Len(closed), 20)))

\* ------------------------------------------------------------ risk governor
InitialRiskState(cfg) ==
  [ equitySol |-> cfg.paperStartingEquity,
    startOfDayEquity |-> cfg.paperStartingEquity,
    todayPnlSol |-> 0, todayPnlPct |-> 0, todayDrawdownPct |-> 0,
    currentExposureSol |-> 0, currentExposurePct |-> 0,
    openPositionCount |-> 0, todayTradeCount |-> 0, hourTradeCount |-> 0,
    consecutiveLosses |-> 0, isHalted |-> FALSE,
    haltReason |-> "undefined", haltedAt |-> NULL, resumeAt |-> NULL ]

\* updateEquity with the drawdown set to the latest P&L percent
updateEquity_LastPnl(rs, sol) ==
  LET pnl == sol - rs.startOfDayEquity
      pct == Pct(pnl, rs.startOfDayEquity)
  IN [rs EXCEPT !.equitySol = sol,
                !.todayPnlSol = pnl,
                !.todayPnlPct = pct,
                !.todayDrawdownPct = pct]

updateEquity(rs, sol) ==
  LET pnl == sol - rs.startOfDayEquity
      pct == Pct(pnl, rs.startOfDayEquity)
  IN [rs EXCEPT !.equitySol = sol,
                !.todayPnlSol = pnl,
                !.todayPnlPct = pct,
                !.todayDrawdownPct = IF pct < @ THEN pct ELSE @]

\* refreshRiskCounters without the re-read of the consecutive losses
refreshRiskCounters_KeepsLosses(rs, ps, os, t) ==
  LET open == getOpenPositions(ps)
      exposure == SumSeq([i \in 1..Len(open) |-> open[i].entryAmountSol])
  IN [rs EXCEPT !.openPositionCount = Len(open),
                !.currentExposureSol = exposure,
                !.currentExposurePct =
                    IF rs.equitySol > 0 THEN Pct(exposure, rs.equitySol) ELSE 0,
                !.todayTradeCount = getTodayTradeCount(os, t),
                !.hourTradeCount = getHourTradeCount(os, t)]

refreshRiskCounters(rs, ps, os, t) ==
  LET open == getOpenPositions(ps)
      exposure == SumSeq([i \in 1..Len(open) |-> open[i].entryAmountSol])
  IN [rs EXCEPT !.openPositionCount = Len(open),
                !.currentExposureSol = exposure,
                !.currentExposurePct =
                    IF rs.equitySol > 0 THEN Pct(exposure, rs.equitySol) ELSE 0,
                !.todayTradeCount = getTodayTradeCount(os, t),
                !.hourTradeCount = getHourTradeCount(os, t),
                !.consecutiveLosses = getConsecutiveLosses(ps)]

\* RiskChecks with the drawdown check made on the day's current P&L
RiskChecks_DrawdownOnPnl(rs, tradeSizeSol, cfg) ==
  << [check |-> "Not halted", passed |-> ~rs.isHalted],
     [check |-> "Daily drawdown",
      passed |-> Abs(rs.todayPnlPct) < cfg.dailyMaxDrawdownPct],
     [check |-> "Exposure limit",
      passed |-> PctAtMost(rs.currentExposureSol + tradeSizeSol, rs.equitySol,
                           cfg.maxExposurePct)],
     [check |-> "Trade size",
      passed |-> PctAtMost(tradeSizeSol, rs.equitySol, cfg.riskPerTradePct)],
     [check |-> "Hourly trades", passed |-> rs.hourTradeCount < cfg.maxTradesPerHour],
     [check |-> "Daily trades", passed |-> rs.todayTradeCount < cfg.maxTradesPerDay],
     [check |-> "Consec. losses",
      passed |-> rs.consecutiveLosses < cfg.maxConsecutiveLosses] >>

\* RiskChecks with the hourly limit compared by <= instead of <
RiskChecks_HourlyInclusive(rs, tradeSizeSol, cfg) ==
  << [check |-> "Not halted", passed |-> ~rs.isHalted],
     [check |-> "Daily drawdown",
      passed |-> Abs(rs.todayDrawdownPct) < cfg.dailyMaxDrawdownPct],
     [check |-> "Exposure limit",
      passed |-> PctAtMost(rs.currentExposureSol + tradeSizeSol, rs.equitySol,
                           cfg.maxExposurePct)],
     [check |-> "Trade size",
      passed |-> PctAtMost(tradeSizeSol, rs.equitySol, cfg.riskPerTradePct)],
     [check |-> "Hourly trades", passed |-> rs.hourTradeCount <= cfg.maxTradesPerHour],
     [check |-> "Daily trades", passed |-> rs.todayTradeCount < cfg.maxTradesPerDay],
     [check |-> "Consec. losses",
      passed |-> rs.consecutiveLosses < cfg.maxConsecutiveLosses] >>

\* The seven checks of checkPreTradeRisk, on an already refreshed state.
RiskChecks(rs, tradeSizeSol, cfg) ==
  << [check |-> "Not halted", passed |-> ~rs.isHalted],
     [check |-> "Daily drawdown",
      passed |-> Abs(rs.todayDrawdownPct) < cfg.dailyMaxDrawdownPct],
     [check |-> "Exposure limit",
      passed |-> PctAtMost(rs.currentExposureSol + tradeSizeSol, rs.equitySol,
                           cfg.maxExposurePct)],
     [check |-> "Trade size",
      passed |-> PctAtMost(tradeSizeSol, rs.equitySol, cfg.riskPerTradePct)],
     [check |-> "Hourly trades", passed |-> rs.hourTradeCount < cfg.maxTradesPerHour],
     [check |-> "Daily trades", passed |-> rs.todayTradeCount < cfg.maxTradesPerDay],
     [check |-> "Consec. losses",
      passed |-> rs.consecutiveLosses < cfg.maxConsecutiveLosses] >>

\* checkPreTradeRisk with details.some in place of details.every
checkPreTradeRisk_Some(rs, tradeSizeSol, cfg) ==
  LET details == RiskChecks(rs, tradeSizeSol, cfg)
      allPassed == \E i \in 1..Len(details) : details[i].passed
      failed == SelectSeq(details, LAMBDA d : ~d.passed)
  IN [ allowed |-> allPassed,
       reason |-> IF allPassed THEN <<"All risk checks passed">>
                  ELSE [i \in 1..Len(failed) |-> failed[i].check],
       details |-> details ]

\* checkPreTradeRisk after its refreshRiskCounters() call: allowed, and the
\* reason as the list of the names it joins after "Blocked: ".
checkPreTradeRisk(rs, tradeSizeSol, cfg) ==
  LET details == RiskChecks(rs, tradeSizeSol, cfg)
      allPassed == \A i \in 1..Len(details) : details[i].passed
      failed == SelectSeq(details, LAMBDA d : ~d.passed)
  IN [ allowed |-> allPassed,
       reason |-> IF allPassed THEN <<"All risk checks passed">>
                  ELSE [i \in 1..Len(failed) |-> failed[i].check],
       details |-> details ]

\* KillSwitchIncident with severity WARNING
KillSwitchIncident_Warning(reason, t) ==
  [ timestamp |-> t, severity |-> "WARNING", category |-> "KILL_SWITCH",
    message |-> <<"Kill switch: ", reason>>, resolved |-> FALSE ]

\* the incident activateKillSwitch saves
KillSwitchIncident(reason, t) ==
  [ timestamp |-> t, severity |-> "CRITICAL", category |-> "KILL_SWITCH",
    message |-> <<"Kill switch: ", reason>>, resolved |-> FALSE ]

\* activateKillSwitch: the riskState part
activateKillSwitch(rs, reason, t) ==
  [rs EXCEPT !.isHalted = TRUE, !.haltReason = reason, !.haltedAt = t]

deactivateKillSwitch(rs) ==
  [rs EXCEPT !.isHalted = FALSE, !.haltReason = "undefined", !.haltedAt = NULL]

\* DrawdownHit with > in place of >=
DrawdownHit_Strict(rs, cfg) ==
  Abs(rs.todayDrawdownPct) > cfg.dailyMaxDrawdownPct /\ ~rs.isHalted

\* the condition of runAutoHaltChecks' drawdown halt
DrawdownHit(rs, cfg) ==
  Abs(rs.todayDrawdownPct) >= cfg.dailyMaxDrawdownPct /\ ~rs.isHalted

\* runAutoHaltChecks after its refreshRiskCounters() call: the new riskState,
\* the incidents saved by activateKillSwitch and the incidents returned.
runAutoHaltChecks(rs, cfg, t) ==
  LET ddHit == DrawdownHit(rs, cfg)
      rs1 == IF ddHit
             THEN [activateKillSwitch(rs, "Daily drawdown", t)
                     EXCEPT !.resumeAt = t + 24 * HOUR_MS]
             ELSE rs
      clHit == rs1.consecutiveLosses >= cfg.maxConsecutiveLosses /\ ~rs1.isHalted
      rs2 == IF clHit THEN activateKillSwitch(rs1, "consecutive losses", t) ELSE rs1
  IN [ risk |-> rs2,
       saved |-> (IF ddHit THEN <<KillSwitchIncident("Daily drawdown", t)>> ELSE <<>>)
                 \o (IF clHit THEN <<KillSwitchIncident("consecutive losses", t)>> ELSE <<>>),
       returned |->
         (IF ddHit THEN << [timestamp |-> t, severity |-> "CRITICAL",
                            category |-> "DAILY_DRAWDOWN", message |-> "Daily drawdown",
                            resolved |-> FALSE] >> ELSE <<>>)
         \o (IF clHit THEN << [timestamp |-> t, severity |-> "WARNING",
                               category |-> "CONSECUTIVE_LOSSES",
                               message |-> "consecutive losses",
                               resolved |-> FALSE] >> ELSE <<>>) ]

\* resetDailyCounters zeroing the hourly trade count with the daily one
resetDailyCounters_ClearsHour(rs, t) ==
  LET rs1 == [rs EXCEPT !.startOfDayEquity = rs.equitySol,
                        !.todayPnlSol = 0, !.todayPnlPct = 0,
                        !.todayDrawdownPct = 0, !.todayTradeCount = 0,
                        !.hourTradeCount = 0]
  IN IF rs1.resumeAt # NULL /\ t >= rs1.resumeAt
     THEN deactivateKillSwitch(rs1) ELSE rs1

\* resetDailyCounters with > in place of >= on the resume time
resetDailyCounters_Strict(rs, t) ==
  LET rs1 == [rs EXCEPT !.startOfDayEquity = rs.equitySol,
                        !.todayPnlSol = 0, !.todayPnlPct = 0,
                        !.todayDrawdownPct = 0, !.todayTradeCount = 0]
  IN IF rs1.resumeAt # NULL /\ t > rs1.resumeAt
     THEN deactivateKillSwitch(rs1) ELSE rs1

resetDailyCounters(rs, t) ==
  LET rs1 == [rs EXCEPT !.startOfDayEquity = rs.equitySol,
                        !.todayPnlSol = 0, !.todayPnlPct = 0,
                        !.todayDrawdownPct = 0, !.todayTradeCount = 0]
  IN IF rs1.resumeAt # NULL /\ t >= rs1.resumeAt
     THEN deactivateKillSwitch(rs1) ELSE rs1

\* ---------------------------------------------------------- strategy engine
Undefined == [undefined |-> TRUE]

Check(name, pass, okReason, failReason) ==
  [ name |-> name,
    result |-> IF pass THEN "PASS" ELSE "FAIL",
    reason |-> IF pass THEN okReason ELSE failReason ]

RiskLimitsReason(c, risk) ==
  IF risk.isHalted THEN "Trading halted"
  ELSE IF risk.currentExposurePct >= c.maxExposurePct THEN "Max exposure reached"
  ELSE IF risk.todayTradeCount >= c.maxTradesPerDay THEN "Daily trade limit reached"
  ELSE IF risk.hourTradeCount >= c.maxTradesPerHour THEN "Hourly trade limit reached"
  ELSE IF risk.consecutiveLosses >= c.maxConsecutiveLosses THEN "consecutive losses"
  ELSE IF Abs(risk.todayDrawdownPct) >= c.dailyMaxDrawdownPct THEN "Daily drawdown limit hit"
  ELSE "All risk limits OK"

GraduationTiming(f, c, token) ==
  IF token.graduatedAt = NULL
  THEN Check("Graduation Timing", c.tradePreGraduation,
             "Pre-graduation trading enabled", "Token not yet graduated")
  ELSE LET secSinceGrad == IF f.timeSinceGraduationSec = NULL THEN 0
                           ELSE f.timeSinceGraduationSec
           inWindow == secSinceGrad >= c.minSecondsAfterGraduation
                       /\ secSinceGrad <= c.maxSecondsAfterGraduation
       IN Check("Graduation Timing", inWindow, "Good timing",
                IF secSinceGrad < c.minSecondsAfterGraduation THEN "Too early" ELSE "Too late")

\* FILTERS.map(fn => fn(features, config, token, riskState))
FILTERS(f, c, token, risk) ==
  << Check("Regime Gate", f.regimeScore >= c.regimeScoreThreshold,
           "Market is active", "Market too quiet"),
     Check("Minimum Liquidity", f.liquidityDepthSol >= c.minLiquidityDepthSol,
           "Liquidity OK", "Too illiquid"),
     Check("Holder Concentration", f.top10HolderPct <= c.maxTop10HolderPct,
           "Holder distribution OK", "Too concentrated"),
     Check("Creator Behavior", ~f.suspiciousCreator,
           "Creator behavior normal", "Suspicious creator"),
     Check("Token Permissions", f.mintAuthorityRevoked /\ f.freezeAuthorityRevoked,
           "Token permissions safe (mint/freeze revoked)",
           "DANGER: Token has active mint or freeze authority"),
     Check("Buyer Breadth", f.uniqueBuyersPerMin >= c.minUniqueBuyersPerMin,
           "Good buyer breadth", "Not enough buyers"),
     Check("Buy Distribution", f.breadthScore >= c.minBreadthScore,
           "Healthy buy distribution", "Dominated by large buyers"),
     Check("Execution Risk", f.estimatedSlippageBps <= c.maxEstimatedSlippageBps,
           "Slippage OK", "Too much slippage"),
     Check("Spread", f.spreadBps <= c.maxSpreadBps, "Spread OK", "Spread too wide"),
     GraduationTiming(f, c, token),
     Check("Buy Pressure", f.netBuyPressure > 0,
           "Net buying", "Net selling or no pressure"),
     Check("Risk Limits",
           ~risk.isHalted
           /\ risk.currentExposurePct < c.maxExposurePct
           /\ risk.todayTradeCount < c.maxTradesPerDay
           /\ risk.hourTradeCount < c.maxTradesPerHour
           /\ risk.consecutiveLosses < c.maxConsecutiveLosses
           /\ Abs(risk.todayDrawdownPct) < c.dailyMaxDrawdownPct,
           RiskLimitsReason(c, risk), RiskLimitsReason(c, risk)),
     Check("RPC Health", f.rpcLatencyMs < 2000 /\ f.recentFailureRate < 20,
           "RPC connection healthy", "RPC degraded") >>

\* generateSummary: the header bullet and the reasons, cut to three bullets
generateSummary(verdict, filters) ==
  IF verdict = "SKIP"
  THEN LET failedFilters == SelectSeq(filters, LAMBDA x : x.result = "FAIL")
           top == SubSeq(failedFilters, 1, Min(3, Len(failedFilters)))
           topReasons == IF top = <<>> THEN <<"No specific reason found">>
                         ELSE [i \in 1..Len(top) |-> top[i].reason]
           all == <<"SKIPPING">> \o topReasons
       IN SubSeq(all, 1, Min(3, Len(all)))
  ELSE <<"TRADING", "Market", "Execution looks clean">>

\* computeAllFeatures: the snapshot the event buffers yield for the mint, with
\* the time since graduation taken from the token
computeAllFeatures(token, mk, t) ==
  [ mk[token.mint] EXCEPT !.timeSinceGraduationSec =
      IF token.graduatedAt # NULL THEN (t - token.graduatedAt) \div 1000 ELSE NULL ]

\* Verdict with filterResults.some in place of filterResults.every
Verdict_Some(filterResults) ==
  IF \E i \in 1..Len(filterResults) : filterResults[i].result = "PASS"
  THEN "TRADE" ELSE "SKIP"

\* evaluateToken's verdict: TRADE when every check passed
Verdict(filterResults) ==
  IF \A i \in 1..Len(filterResults) : filterResults[i].result = "PASS"
  THEN "TRADE" ELSE "SKIP"

\* evaluateToken without its saveDecision call: the card
evaluateToken(token, config, risk, openPositions, mk, t, id) ==
  LET orderSizeSol == (config.riskPerTradePct * risk.equitySol) \div (100 * PCT_SCALE)
      features == computeAllFeatures(token, mk, t)
      filterResults0 == FILTERS(features, config, token, risk)
      alreadyInPosition == \E i \in 1..Len(openPositions) :
                              openPositions[i].tokenMint = token.mint
      filterResults ==
        IF alreadyInPosition
        THEN Append(filterResults0,
                    [name |-> "No Duplicate Position", result |-> "FAIL",
                     reason |-> "Already have an open position in this token"])
        ELSE filterResults0
      verdict == Verdict(filterResults)
  IN [ id |-> id,
       tokenMint |-> token.mint,
       timestamp |-> t,
       verdict |-> verdict,
       summaryBullets |-> generateSummary(verdict, filterResults),
       filters |-> filterResults,
       features |-> features,
       executionPlan |->
         IF verdict = "TRADE"
         THEN [ route |-> IF token.raydiumPoolAddress THEN "JUPITER"
                          ELSE "PUMP_BONDING_CURVE",
                outputMint |-> token.mint,
                amountInSol |-> orderSizeSol,
                estimatedSlippageBps |-> features.estimatedSlippageBps ]
         ELSE Undefined,
       riskImpact |->
         IF verdict = "TRADE"
         THEN [ riskPct |-> config.riskPerTradePct,
                maxLossSol |-> (orderSizeSol * config.stopLossPct) \div (100 * PCT_SCALE),
                newExposurePct |-> risk.currentExposurePct
                                   + Pct(orderSizeSol, risk.equitySol),
                withinLimits |-> TRUE ]
         ELSE Undefined ]

NoSignal == [type |-> "none", sellPct |-> 0, level |-> 0, price |-> 0]

\* index of the first take-profit level that is untriggered and reached, or 0.
\* pnlPct is the exact fraction num / den (hundredths of a percent).
FirstTakeProfit(levels, num, den) ==
  LET hit == {i \in 1..Len(levels) :
                ~levels[i].triggered /\ num >= levels[i].pctGain * den}
  IN IF hit = {} THEN 0 ELSE CHOOSE i \in hit : \A j \in hit : i <= j

\* checkExitConditions with the trailing stop not guarded by pnlPct > 0
checkExitConditions_NoGainGuard(position, currentPrice, config, t) ==
  LET num == (currentPrice - position.entryPrice) * 100 * PCT_SCALE
      den == position.entryPrice
      tp == FirstTakeProfit(position.takeProfitLevels, num, den)
  IN IF num <= (0 - config.stopLossPct) * den
     THEN [type |-> "STOP_LOSS", sellPct |-> 100, level |-> 0, price |-> currentPrice]
     ELSE IF tp # 0
     THEN [type |-> "TAKE_PROFIT", sellPct |-> position.takeProfitLevels[tp].sellPct,
           level |-> tp, price |-> currentPrice]
     ELSE IF currentPrice * (100 * PCT_SCALE)
               <= position.highWaterMark * (100 * PCT_SCALE - config.trailingStopPct)
     THEN [type |-> "TRAILING_STOP", sellPct |-> 100, level |-> 0, price |-> currentPrice]
     ELSE IF t - position.entryTime >= config.timeStopMinutes * MINUTE_MS
             /\ num < 10 * PCT_SCALE * den
     THEN [type |-> "TIME_STOP", sellPct |-> 100, level |-> 0, price |-> currentPrice]
     ELSE NoSignal

\* checkExitConditions with the trailing stop tried before the take-profit
\* levels
checkExitConditions_TrailingFirst(position, currentPrice, config, t) ==
  LET num == (currentPrice - position.entryPrice) * 100 * PCT_SCALE
      den == position.entryPrice
      tp == FirstTakeProfit(position.takeProfitLevels, num, den)
  IN IF num <= (0 - config.stopLossPct) * den
     THEN [type |-> "STOP_LOSS", sellPct |-> 100, level |-> 0, price |-> currentPrice]
     ELSE IF currentPrice * (100 * PCT_SCALE)
               <= position.highWaterMark * (100 * PCT_SCALE - config.trailingStopPct)
             /\ num > 0
     THEN [type |-> "TRAILING_STOP", sellPct |-> 100, level |-> 0, price |-> currentPrice]
     ELSE IF tp # 0
     THEN [type |-> "TAKE_PROFIT", sellPct |-> position.takeProfitLevels[tp].sellPct,
           level |-> tp, price |-> currentPrice]
     ELSE IF t - position.entryTime >= config.timeStopMinutes * MINUTE_MS
             /\ num < 10 * PCT_SCALE * den
     THEN [type |-> "TIME_STOP", sellPct |-> 100, level |-> 0, price |-> currentPrice]
     ELSE NoSignal

\* checkExitConditions.  level is the index of the take-profit level the
\* signal's reason names (0 for the other signals).  The comparisons of
\* pnlPct = ((currentPrice - entryPrice) / entryPrice) * 100 are made on the
\* exact fraction, without rounding.
checkExitConditions(position, currentPrice, config, t) ==
  LET num == (currentPrice - position.entryPrice) * 100 * PCT_SCALE
      den == position.entryPrice
      tp == FirstTakeProfit(position.takeProfitLevels, num, den)
  IN IF num <= (0 - config.stopLossPct) * den
     THEN [type |-> "STOP_LOSS", sellPct |-> 100, level |-> 0, price |-> currentPrice]
     ELSE IF tp # 0
     THEN [type |-> "TAKE_PROFIT", sellPct |-> position.takeProfitLevels[tp].sellPct,
           level |-> tp, price |-> currentPrice]
     ELSE IF currentPrice * (100 * PCT_SCALE)
               <= position.highWaterMark * (100 * PCT_SCALE - config.trailingStopPct)
             /\ num > 0
     THEN [type |-> "TRAILING_STOP", sellPct |-> 100, level |-> 0, price |-> currentPrice]
     ELSE IF t - position.entryTime >= config.timeStopMinutes * MINUTE_MS
             /\ num < 10 * PCT_SCALE * den
     THEN [type |-> "TIME_STOP", sellPct |-> 100, level |-> 0, price |-> currentPrice]
     ELSE NoSignal

\* ------------------------------------------------------ paper trading engine
\* random draws, in thousandths
BuyJitters == {1000}
SellJitters == {1000}
FillRatios == {1000, 500}
\* 1 + (Math.random() - 0.45) * 0.1 lies in [0.955, 1.055)
PriceFactors == {970, 1000, 1050}

\* the failure branch of executeBuy, with the equity debited as for a fill
BuyFailure_Debits(plan, decisionCardId, rs, ps, os, t) ==
  LET order == [ id |-> Len(os) + 1, tokenMint |-> plan.outputMint,
                 side |-> "BUY", source |-> "ENTRY_SIGNAL",
                 amountSol |-> plan.amountInSol, amountTokens |-> 0,
                 executedPrice |-> NULL, slippageBps |-> NULL, feeSol |-> NULL,
                 status |-> "FAILED", decisionCardId |-> decisionCardId,
                 createdAt |-> t,
                 errorMessage |-> "Simulated transaction failure" ]
  IN [order |-> order, orders |-> saveOrder(os, order), positions |-> ps,
      risk |-> updateEquity(rs, rs.equitySol - plan.amountInSol)]

\* the failure branch of executeBuy: the FAILED order is saved and returned
BuyFailure(plan, decisionCardId, rs, ps, os, t) ==
  LET order == [ id |-> Len(os) + 1, tokenMint |-> plan.outputMint,
                 side |-> "BUY", source |-> "ENTRY_SIGNAL",
                 amountSol |-> plan.amountInSol, amountTokens |-> 0,
                 executedPrice |-> NULL, slippageBps |-> NULL, feeSol |-> NULL,
                 status |-> "FAILED", decisionCardId |-> decisionCardId,
                 createdAt |-> t,
                 errorMessage |-> "Simulated transaction failure" ]
  IN [order |-> order, orders |-> saveOrder(os, order), positions |-> ps, risk |-> rs]

\* the equity update of a filled buy, with the fee left out
BuyEquity_NoFee(rs, actualAmountSol, feeSol) ==
  updateEquity(rs, rs.equitySol - actualAmountSol)

\* the equity update of a filled buy: getRiskState(), then updateEquity
BuyEquity(rs, actualAmountSol, feeSol) ==
  updateEquity(rs, rs.equitySol - actualAmountSol - feeSol)

\* executeBuy after simulateLatency() resolved.  fail, jitter and fillRatio are
\* the three random draws.  Returns the order and the new tables and riskState.
executeBuy(plan, decisionCardId, config, rs, ps, os, t, fail, jitter, fillRatio) ==
  IF fail
  THEN BuyFailure(plan, decisionCardId, rs, ps, os, t)
  ELSE LET actualSlippageBps ==
             RoundDiv(plan.estimatedSlippageBps * config.paperSlippageMultiplier * jitter,
                      1000000)
           actualAmountSol == (plan.amountInSol * fillRatio) \div 1000
           simulatedPrice == (PRICE_ONE * (10000 + actualSlippageBps)) \div 10000
           tokensReceived == actualAmountSol \div simulatedPrice
           feeSol == (actualAmountSol * 3) \div 1000
           order == [ id |-> Len(os) + 1, tokenMint |-> plan.outputMint,
                      side |-> "BUY", source |-> "ENTRY_SIGNAL",
                      amountSol |-> actualAmountSol, amountTokens |-> tokensReceived,
                      executedPrice |-> simulatedPrice,
                      slippageBps |-> actualSlippageBps, feeSol |-> feeSol,
                      status |-> "CONFIRMED", decisionCardId |-> decisionCardId,
                      createdAt |-> t, errorMessage |-> "undefined" ]
           stopLossPrice == (simulatedPrice * (100 * PCT_SCALE - config.stopLossPct))
                              \div (100 * PCT_SCALE)
           position ==
             [ id |-> Len(ps) + 1, tokenMint |-> plan.outputMint, status |-> "OPEN",
               entryPrice |-> simulatedPrice, currentPrice |-> simulatedPrice,
               entryAmountSol |-> actualAmountSol, remainingTokens |-> tokensReceived,
               totalTokensBought |-> tokensReceived, totalTokensSold |-> 0,
               realizedPnlSol |-> 0, unrealizedPnlSol |-> 0, unrealizedPnlPct |-> 0,
               stopLossPrice |-> stopLossPrice,
               takeProfitLevels |->
                 [i \in 1..Len(config.takeProfitLevels) |->
                    [pctGain |-> config.takeProfitLevels[i].pctGain,
                     sellPct |-> config.takeProfitLevels[i].sellPct,
                     triggered |-> FALSE]],
               trailingStopPct |-> config.trailingStopPct,
               trailingStopPrice |-> stopLossPrice,
               highWaterMark |-> simulatedPrice,
               timeStopMinutes |-> config.timeStopMinutes,
               entryTime |-> t, lastUpdateTime |-> t,
               decisionCardId |-> decisionCardId, exitReason |-> "undefined" ]
       IN [ order |-> order, orders |-> saveOrder(os, order),
            positions |-> savePosition(ps, position),
            risk |-> BuyEquity(rs, actualAmountSol, feeSol) ]

\* the equity update of a filled sell, with the proceeds credited twice
SellEquity_Twice(rs, netSol) ==
  updateEquity(rs, rs.equitySol + 2 * netSol)

\* the equity update of a filled sell: getRiskState(), then updateEquity
SellEquity(rs, netSol) ==
  updateEquity(rs, rs.equitySol + netSol)

\* SellUpdate without the addition to totalTokensSold
SellUpdate_SoldForgotten(position, tokensToSell, netSol, source, t) ==
  LET remaining == position.remainingTokens - tokensToSell
      closed == remaining <= EPSILON_TOKENS
  IN [ position EXCEPT
         !.remainingTokens = IF closed THEN 0 ELSE remaining,
         !.realizedPnlSol = @ + netSol - tokensToSell * position.entryPrice,
         !.lastUpdateTime = t,
         !.status = IF closed THEN "CLOSED" ELSE "PARTIALLY_CLOSED",
         !.exitReason = IF closed THEN source ELSE @ ]

\* executeSell's update of the caller's position object
SellUpdate(position, tokensToSell, netSol, source, t) ==
  LET remaining == position.remainingTokens - tokensToSell
      closed == remaining <= EPSILON_TOKENS
  IN [ position EXCEPT
         !.remainingTokens = IF closed THEN 0 ELSE remaining,
         !.totalTokensSold = @ + tokensToSell,
         !.realizedPnlSol = @ + netSol - tokensToSell * position.entryPrice,
         !.lastUpdateTime = t,
         !.status = IF closed THEN "CLOSED" ELSE "PARTIALLY_CLOSED",
         !.exitReason = IF closed THEN source ELSE @ ]

\* executeSell after simulateLatency() resolved, on the caller's position
\* object.  fail and jitter are the two random draws.
executeSell(position, sellPct, source, currentPrice, config, rs, ps, os, t, fail, jitter) ==
  IF fail
  THEN LET order == [ id |-> Len(os) + 1, tokenMint |-> position.tokenMint,
                      side |-> "SELL", source |-> source,
                      amountSol |-> 0, amountTokens |-> 0,
                      executedPrice |-> NULL, slippageBps |-> NULL, feeSol |-> NULL,
                      status |-> "FAILED", decisionCardId |-> position.decisionCardId,
                      createdAt |-> t, errorMessage |-> "Simulated sell failure" ]
       IN [ order |-> order, orders |-> saveOrder(os, order), positions |-> ps,
            risk |-> rs, position |-> position ]
  ELSE LET tokensToSell == (position.remainingTokens * sellPct) \div 100
           slippageBps == RoundDiv(50 * config.paperSlippageMultiplier * jitter, 1000000)
           executedPrice == (currentPrice * (10000 - slippageBps)) \div 10000
           solReceived == tokensToSell * executedPrice
           feeSol == (solReceived * 3) \div 1000
           netSol == solReceived - feeSol
           order == [ id |-> Len(os) + 1, tokenMint |-> position.tokenMint,
                      side |-> "SELL", source |-> source,
                      amountSol |-> netSol, amountTokens |-> tokensToSell,
                      executedPrice |-> executedPrice,
                      slippageBps |-> slippageBps, feeSol |-> feeSol,
                      status |-> "CONFIRMED", decisionCardId |-> position.decisionCardId,
                      createdAt |-> t, errorMessage |-> "undefined" ]
           pos2 == SellUpdate(position, tokensToSell, netSol, source, t)
       IN [ order |-> order, orders |-> saveOrder(os, order),
            positions |-> savePosition(ps, pos2),
            risk |-> SellEquity(rs, netSol),
            position |-> pos2 ]

\* ------------------------------------------------------------ orchestrator
Mints == {"A", "B"}

\* the bot's configuration (TradingBot.config)
Cfg == loadConfig

GoodFeatures ==
  [ regimeScore |-> 50, liquidityDepthSol |-> 10, top10HolderPct |-> 50,
    suspiciousCreator |-> FALSE, mintAuthorityRevoked |-> TRUE,
    freezeAuthorityRevoked |-> TRUE, uniqueBuyersPerMin |-> 4, breadthScore |-> 80,
    estimatedSlippageBps |-> 100, spreadBps |-> 500, netBuyPressure |-> 50,
    rpcLatencyMs |-> 200, recentFailureRate |-> 0, timeSinceGraduationSec |-> NULL ]

ColdFeatures ==
  [ GoodFeatures EXCEPT !.liquidityDepthSol = 1, !.spreadBps = 1000,
                        !.uniqueBuyersPerMin = 0, !.netBuyPressure = 0,
                        !.estimatedSlippageBps = 0 ]

FeatureProfiles == {GoodFeatures, ColdFeatures}

\* processQueue from its while loop on, up to the first await or the end: the
\* part of the call that runs without interruption.
RECURSIVE DrainLoop(_, _, _, _, _)
DrainLoop(q, rs, decs, ps, os) ==
  IF q = <<>>
  THEN [queue |-> q, risk |-> rs, decisions |-> decs, frame |-> NoFrame,
        isProcessing |-> FALSE]
  ELSE LET token == Head(q) IN
    IF botState # "RUNNING" THEN DrainLoop(Tail(q), rs, decs, ps, os)
    ELSE
      LET decision == evaluateToken(token, Cfg, rs, getOpenPositions(ps), market, now,
                                    Len(decs) + 1)
          decs2 == saveDecision(decs, decision)
      IN IF decision.verdict = "TRADE" /\ decision.executionPlan # Undefined
         THEN LET rs2 == refreshRiskCounters(rs, ps, os, now)
                  riskCheck == checkPreTradeRisk(rs2, decision.executionPlan.amountInSol, Cfg)
              IN IF riskCheck.allowed /\ Cfg.mode = "PAPER"
                 THEN [queue |-> Tail(q), risk |-> rs2, decisions |-> decs2,
                       frame |-> [pc |-> "buyLatency", plan |-> decision.executionPlan,
                                  decisionCardId |-> decision.id],
                       isProcessing |-> TRUE]
                 ELSE DrainLoop(Tail(q), rs2, decs2, ps, os)
         ELSE DrainLoop(Tail(q), rs, decs2, ps, os)

\* processQueue without its isProcessing guard
processQueue_Reentrant(q) ==
  LET r == DrainLoop(q, riskState, decisions, positions, orders)
  IN /\ evaluationQueue' = r.queue
     /\ riskState' = r.risk
     /\ decisions' = r.decisions
     /\ drain' = r.frame
     /\ isProcessing' = r.isProcessing

\* processQueue(): the guard, then the loop
processQueue(q) ==
  IF isProcessing
  THEN /\ evaluationQueue' = q
       /\ UNCHANGED << riskState, decisions, drain, isProcessing >>
  ELSE LET r == DrainLoop(q, riskState, decisions, positions, orders)
       IN /\ evaluationQueue' = r.queue
          /\ riskState' = r.risk
          /\ decisions' = r.decisions
          /\ drain' = r.frame
          /\ isProcessing' = r.isProcessing

CanEnqueue == Len(decisions) + Len(evaluationQueue) < MaxDecisions

\* ingestion.on('graduation', ...)
OnGraduation(m) ==
  /\ CanEnqueue
  /\ LET token == [mint |-> m, graduatedAt |-> now, raydiumPoolAddress |-> TRUE]
     IN IF Cfg.tradePostGraduation
        THEN processQueue(Append(evaluationQueue, token))
        ELSE UNCHANGED << evaluationQueue, riskState, decisions, drain, isProcessing >>
  /\ UNCHANGED << now, positions, orders, incidents, botState, market, ticks,
                  tpFired, input, output >>

\* OnNewToken with unshift in place of push
OnNewToken_Unshift(m) ==
  /\ CanEnqueue
  /\ LET token == [mint |-> m, graduatedAt |-> NULL, raydiumPoolAddress |-> FALSE]
     IN IF Cfg.tradePreGraduation
        THEN processQueue(<<token>> \o evaluationQueue)
        ELSE UNCHANGED << evaluationQueue, riskState, decisions, drain, isProcessing >>
  /\ UNCHANGED << now, positions, orders, incidents, botState, market, ticks,
                  tpFired, input, output >>

\* ingestion.on('newToken', ...)
OnNewToken(m) ==
  /\ CanEnqueue
  /\ LET token == [mint |-> m, graduatedAt |-> NULL, raydiumPoolAddress |-> FALSE]
     IN IF Cfg.tradePreGraduation
        THEN processQueue(Append(evaluationQueue, token))
        ELSE UNCHANGED << evaluationQueue, riskState, decisions, drain, isProcessing >>
  /\ UNCHANGED << now, positions, orders, incidents, botState, market, ticks,
                  tpFired, input, output >>

\* BuyResolve with the suspended buy dropped when the governor is halted
BuyResolve_CancelOnHalt ==
  /\ drain.pc = "buyLatency"
  /\ \E fail \in BOOLEAN, jitter \in BuyJitters, fillRatio \in FillRatios :
       LET b == IF riskState.isHalted
                THEN [positions |-> positions, orders |-> orders, risk |-> riskState]
                ELSE executeBuy(drain.plan, drain.decisionCardId, Cfg, riskState,
                                positions, orders, now, fail, jitter, fillRatio)
           r == DrainLoop(evaluationQueue, b.risk, decisions, b.positions, b.orders)
       IN /\ positions' = b.positions
          /\ orders' = b.orders
          /\ tpFired' = IF Len(b.positions) > Len(positions)
                        THEN Append(tpFired, <<>>) ELSE tpFired
          /\ evaluationQueue' = r.queue
          /\ riskState' = r.risk
          /\ decisions' = r.decisions
          /\ drain' = r.frame
          /\ isProcessing' = r.isProcessing
  /\ UNCHANGED << now, incidents, botState, market, ticks, input, output >>

\* the continuation of processQueue when executeBuy's latency wait is over
BuyResolve ==
  /\ drain.pc = "buyLatency"
  /\ \E fail \in BOOLEAN, jitter \in BuyJitters, fillRatio \in FillRatios :
       LET b == executeBuy(drain.plan, drain.decisionCardId, Cfg, riskState,
                           positions, orders, now, fail, jitter, fillRatio)
           r == DrainLoop(evaluationQueue, b.risk, decisions, b.positions, b.orders)
       IN /\ positions' = b.positions
          /\ orders' = b.orders
          /\ tpFired' = IF Len(b.positions) > Len(positions)
                        THEN Append(tpFired, <<>>) ELSE tpFired
          /\ evaluationQueue' = r.queue
          /\ riskState' = r.risk
          /\ decisions' = r.decisions
          /\ drain' = r.frame
          /\ isProcessing' = r.isProcessing
  /\ UNCHANGED << now, incidents, botState, market, ticks, input, output >>

\* the position monitor's for loop, up to the first await or the end.  snap is
\* what is left of the getOpenPositions() result, fs the price draws.
RECURSIVE MonitorLoop(_, _, _)
MonitorLoop(snap, fs, t) ==
  IF snap = <<>> THEN NoFrame
  ELSE LET pos == Head(snap)
           currentPrice == (pos.currentPrice * Head(fs)) \div 1000
           pos2 == [ pos EXCEPT
                       !.highWaterMark = IF currentPrice > @ THEN currentPrice ELSE @,
                       !.currentPrice = currentPrice,
                       !.unrealizedPnlPct = Pct(currentPrice - pos.entryPrice, pos.entryPrice),
                       !.unrealizedPnlSol = pos.remainingTokens * (currentPrice - pos.entryPrice) ]
           exitSignal == checkExitConditions(pos2, currentPrice, Cfg, t)
       IN IF exitSignal # NoSignal /\ Cfg.mode = "PAPER"
          THEN [pc |-> "sellLatency", pos |-> pos2, exitSignal |-> exitSignal,
                rest |-> Tail(snap)]
          ELSE MonitorLoop(Tail(snap), Tail(fs), t)

TickIds == 1..MaxTicks

\* the setInterval callback of the position monitor, started
MonitorTick ==
  /\ botState = "RUNNING"
  /\ Len(orders) + Cardinality({j \in TickIds : ticks[j] # NoFrame}) < MaxOrders
  /\ \E k \in TickIds :
       /\ ticks[k] = NoFrame
       /\ \A j \in TickIds : j < k => ticks[j] # NoFrame
       /\ LET snap == getOpenPositions(positions)
          IN \E fs \in [1..Len(snap) -> PriceFactors] :
               ticks' = [ticks EXCEPT ![k] = MonitorLoop(snap, fs, now)]
  /\ UNCHANGED << now, riskState, positions, orders, incidents, decisions, botState,
                  market, evaluationQueue, isProcessing, drain, tpFired, input, output >>

\* the continuation of a monitor callback when executeSell's latency wait is over
SellResolve(k) ==
  /\ ticks[k].pc = "sellLatency"
  /\ \E fail \in BOOLEAN, jitter \in SellJitters :
       LET f == ticks[k]
           r == executeSell(f.pos, f.exitSignal.sellPct, f.exitSignal.type,
                            f.exitSignal.price, Cfg, riskState, positions, orders,
                            now, fail, jitter)
       IN /\ positions' = r.positions
          /\ orders' = r.orders
          /\ riskState' = r.risk
          /\ tpFired' = IF ~fail /\ f.exitSignal.type = "TAKE_PROFIT"
                        THEN [tpFired EXCEPT ![f.pos.id] = Append(@, f.exitSignal.level)]
                        ELSE tpFired
          /\ \E fs \in [1..Len(f.rest) -> PriceFactors] :
               ticks' = [ticks EXCEPT ![k] = MonitorLoop(f.rest, fs, now)]
  /\ UNCHANGED << now, incidents, decisions, botState, market, evaluationQueue,
                  isProcessing, drain, input, output >>

\* setInterval: runAutoHaltChecks(config), and the broadcast of the incidents
\* it returns
AutoHaltTick ==
  /\ LET r == runAutoHaltChecks(refreshRiskCounters(riskState, positions, orders, now),
                                Cfg, now)
     IN /\ Len(incidents) + Len(r.saved) <= MaxIncidents
        /\ riskState' = r.risk
        /\ incidents' = incidents \o r.saved
        /\ output' = [fn |-> "broadcast", incidents |-> r.returned]
  /\ UNCHANGED << now, positions, orders, decisions, botState, market, evaluationQueue,
                  isProcessing, drain, ticks, tpFired, input >>

\* setInterval: refreshRiskCounters()
RiskRefreshTick ==
  /\ riskState' = refreshRiskCounters(riskState, positions, orders, now)
  /\ UNCHANGED << now, positions, orders, incidents, decisions, botState, market,
                  evaluationQueue, isProcessing, drain, ticks, tpFired, input, output >>

\* setInterval: the daily reset, in the minute after local midnight
DailyResetTick ==
  /\ now % DAY_MS < MINUTE_MS
  /\ riskState' = resetDailyCounters(riskState, now)
  /\ UNCHANGED << now, positions, orders, incidents, decisions, botState, market,
                  evaluationQueue, isProcessing, drain, ticks, tpFired, input, output >>

\* KillSwitch closing every position as it halts
KillSwitch_ForceClose ==
  /\ Len(incidents) < MaxIncidents
  /\ riskState' = activateKillSwitch(riskState, "Manual kill switch activated by operator", now)
  /\ incidents' = saveIncident(incidents, KillSwitchIncident("Manual kill switch activated by operator", now))
  /\ botState' = "HALTED"
  /\ positions' = [i \in 1..Len(positions) |->
                     [positions[i] EXCEPT !.status = "CLOSED", !.remainingTokens = 0,
                                          !.exitReason = "KILL_SWITCH"]]
  /\ UNCHANGED << now, orders, decisions, market, evaluationQueue,
                  isProcessing, drain, ticks, tpFired, input, output >>

\* POST /kill-switch
KillSwitch ==
  /\ Len(incidents) < MaxIncidents
  /\ riskState' = activateKillSwitch(riskState, "Manual kill switch activated by operator", now)
  /\ incidents' = saveIncident(incidents, KillSwitchIncident("Manual kill switch activated by operator", now))
  /\ botState' = "HALTED"
  /\ UNCHANGED << now, positions, orders, decisions, market, evaluationQueue,
                  isProcessing, drain, ticks, tpFired, input, output >>

\* POST /kill-switch/deactivate
KillSwitchDeactivate ==
  /\ riskState' = deactivateKillSwitch(riskState)
  /\ botState' = "RUNNING"
  /\ UNCHANGED << now, positions, orders, incidents, decisions, market, evaluationQueue,
                  isProcessing, drain, ticks, tpFired, input, output >>

\* POST /state
SetBotState(state) ==
  /\ state \in {"RUNNING", "PAUSED"}
  /\ botState' = state
  /\ UNCHANGED << now, riskState, positions, orders, incidents, decisions, market,
                  evaluationQueue, isProcessing, drain, ticks, tpFired, input, output >>

\* recordEvent arrivals change what the buffers yield for a mint
MarketEvent(m, profile) ==
  /\ market' = [market EXCEPT ![m] = profile]
  /\ UNCHANGED << now, riskState, positions, orders, incidents, decisions, botState,
                  evaluationQueue, isProcessing, drain, ticks, tpFired, input, output >>

\* Date.now() when the bot starts: half a minute past noon
StartTime == 12 * HOUR_MS + 30000

AdvanceClock ==
  /\ now < StartTime + MaxClockSteps * ClockStep
  /\ now' = now + ClockStep
  /\ UNCHANGED << riskState, positions, orders, incidents, decisions, botState, market,
                  evaluationQueue, isProcessing, drain, ticks, tpFired, input, output >>

NoInput == [fn |-> "none"]

Init ==
  /\ now = StartTime
  /\ riskState = InitialRiskState(Cfg)
  /\ positions = <<>>
  /\ orders = <<>>
  /\ incidents = <<>>
  /\ decisions = <<>>
  /\ botState = "RUNNING"
  /\ market = [m \in Mints |-> GoodFeatures]
  /\ evaluationQueue = <<>>
  /\ isProcessing = FALSE
  /\ drain = NoFrame
  /\ ticks = [k \in TickIds |-> NoFrame]
  /\ tpFired = <<>>
  /\ input = NoInput
  /\ output = NoInput

Next ==
  \/ \E m \in Mints : OnGraduation(m)
  \/ \E m \in Mints : OnNewToken(m)
  \/ BuyResolve
  \/ MonitorTick
  \/ \E k \in TickIds : SellResolve(k)
  \/ AutoHaltTick
  \/ RiskRefreshTick
  \/ DailyResetTick
  \/ KillSwitch
  \/ KillSwitchDeactivate
  \/ \E st \in {"RUNNING", "PAUSED"} : SetBotState(st)
  \/ \E m \in Mints, profile \in FeatureProfiles : MarketEvent(m, profile)
  \/ AdvanceClock

Spec == Init /\ [][Next]_vars

\* The position monitor and the paper engine, without the governor's tasks
\* and the operator's commands.  The clock stands still here; the exits that
\* depend on time are in the serial monitor below.
NextMonitor ==
  \/ OnNewToken("A")
  \/ BuyResolve
  \/ MonitorTick
  \/ \E k \in TickIds : SellResolve(k)

SpecMonitor == Init /\ [][NextMonitor]_vars

\* The position monitor when every callback ends before the next one starts.
NextSerialMonitor ==
  \/ OnNewToken("A")
  \/ BuyResolve
  \/ ((\A k \in TickIds : ticks[k] = NoFrame) /\ MonitorTick)
  \/ \E k \in TickIds : SellResolve(k)
  \/ (now = StartTime /\ AdvanceClock)

SpecSerialMonitor == Init /\ [][NextSerialMonitor]_vars

\* --------------------------------------------------------- position claims
\* C4: exit signals that overlap on one position lose no update: the tokens of
\* its CONFIRMED SELL orders never add up to more than the tokens bought, so
\* no token is credited to equity twice and a CLOSED position is not sold again.
C4_NoOversell ==
  \A i \in 1..Len(positions) :
    LET sells == SelectSeq(orders, LAMBDA o :
                   /\ o.side = "SELL" /\ o.status = "CONFIRMED"
                   /\ o.decisionCardId = positions[i].decisionCardId)
    IN SumSeq([k \in 1..Len(sells) |-> sells[k].amountTokens])
         <= positions[i].totalTokensBought

\* C5: after any successful and failed sells, every position has
\* remainingTokens = totalTokensBought - totalTokensSold up to the closing
\* tolerance, and remainingTokens >= 0.
C5_TokenAccounting ==
  \A i \in 1..Len(positions) :
    LET p == positions[i]
    IN /\ p.remainingTokens >= 0
       /\ p.totalTokensBought - p.totalTokensSold - p.remainingTokens
            \in 0..EPSILON_TOKENS

\* a position partly sold, with a failed sell among its orders
C5_Witness ==
  \E i \in 1..Len(positions) :
    /\ positions[i].status = "PARTIALLY_CLOSED"
    /\ positions[i].totalTokensSold > 0
    /\ positions[i].remainingTokens > 0
    /\ \E k \in 1..Len(orders) :
         /\ orders[k].side = "SELL" /\ orders[k].status = "FAILED"
         /\ orders[k].decisionCardId = positions[i].decisionCardId

\* C6: a position's status agrees with its token accounting and only moves
\* forward: OPEN with nothing sold, CLOSED with nothing remaining,
\* PARTIALLY_CLOSED with more than the epsilon remaining; CLOSED is terminal
\* and no status returns to OPEN.
C6_StatusForwardOnly ==
  /\ [](\A i \in 1..Len(positions) :
         LET p == positions[i]
         IN /\ p.status \in {"OPEN", "PARTIALLY_CLOSED", "CLOSED"}
            /\ p.status = "OPEN" => p.totalTokensSold = 0
            /\ p.status = "CLOSED" => p.remainingTokens = 0
            /\ p.status = "PARTIALLY_CLOSED" => p.remainingTokens > EPSILON_TOKENS)
  /\ [][\A i \in 1..Len(positions) :
         /\ positions[i].status = "CLOSED" => positions'[i].status = "CLOSED"
         /\ positions'[i].status = "OPEN" => positions[i].status = "OPEN"]_vars

\* C7: over the exit evaluations of one position each take-profit level is
\* sold at most once.
C7_TakeProfitOnce ==
  \A id \in 1..Len(tpFired) :
    \A i, j \in 1..Len(tpFired[id]) : i # j => tpFired[id][i] # tpFired[id][j]

\* ------------------------------------------- the risk governor's interface
\* Database contents and riskState as earlier trades leave them.  DbBuy is one
\* pass of processQueue for a token of mint m at time t with every draw at its
\* middle, DbSell a monitor pass that sells position id entirely at price.
DbEmpty == [risk |-> InitialRiskState(Cfg), positions |-> <<>>, orders |-> <<>>]

DbBuy(db, m, t) ==
  LET token == [mint |-> m, graduatedAt |-> NULL, raydiumPoolAddress |-> FALSE]
      card == evaluateToken(token, Cfg, db.risk, getOpenPositions(db.positions),
                            [x \in Mints |-> GoodFeatures], t, Len(db.orders) + 1)
      rs == refreshRiskCounters(db.risk, db.positions, db.orders, t)
  IN IF card.verdict = "TRADE"
     THEN IF checkPreTradeRisk(rs, card.executionPlan.amountInSol, Cfg).allowed
          THEN LET b == executeBuy(card.executionPlan, card.id, Cfg, rs, db.positions,
                                   db.orders, t, FALSE, 1000, 1000)
               IN [risk |-> b.risk, positions |-> b.positions, orders |-> b.orders]
          ELSE [db EXCEPT !.risk = rs]
     ELSE db

DbSell(db, id, price, source, t) ==
  LET pos == [db.positions[id] EXCEPT !.currentPrice = price,
                                       !.highWaterMark = Max(@, price)]
      r == executeSell(pos, 100, source, price, Cfg, db.risk, db.positions, db.orders,
                       t, FALSE, 1000)
  IN [risk |-> r.risk, positions |-> r.positions, orders |-> r.orders]

EarlyTime == 6 * HOUR_MS
TradeTime == 12 * HOUR_MS

HistEmpty == DbEmpty
HistA == DbBuy(HistEmpty, "A", EarlyTime)
HistAB == DbBuy(HistA, "B", TradeTime)
HistALost == DbSell(HistA, 1, 97, "STOP_LOSS", EarlyTime)
HistABLost == DbSell(HistAB, 1, 97, "STOP_LOSS", TradeTime)
HistAWon == DbSell(HistA, 1, 110, "TIME_STOP", EarlyTime)
HistAA == DbBuy(HistAWon, "A", EarlyTime)
HistAAWon == DbSell(HistAA, 2, 110, "TIME_STOP", EarlyTime)
HistAAA == DbBuy(HistAAWon, "A", TradeTime)
HistRecentA == DbBuy(HistEmpty, "A", TradeTime)
HistRecentAB == DbBuy(HistRecentA, "B", TradeTime)

Histories == {HistEmpty, HistA, HistAB, HistALost, HistABLost, HistAAA, HistRecentAB}

\* the histories the halts need: no trade, one lost trade, two open positions
HaltHistories == {HistEmpty, HistALost, HistRecentAB}

\* equity values the fills of the paper engine report to updateEquity
EquityMarks == {100000, 85010, 85000}

\* trade sizes asked of the gate
TradeSizes == {1000, 10000, 20000}

\* updateEquity(newEquitySol), as the paper engine calls it after a fill
UpdateEquity(sol) ==
  /\ riskState' = updateEquity(riskState, sol)
  /\ UNCHANGED << now, positions, orders, incidents, decisions, botState, market,
                  evaluationQueue, isProcessing, drain, ticks, tpFired, input, output >>

\* checkPreTradeRisk(tradeSizeSol, config): the refresh, then the seven checks.
\* output keeps the call: the size, the time, the refreshed state, the result.
GateCall(tradeSizeSol) ==
  /\ LET rs == refreshRiskCounters(riskState, positions, orders, now)
     IN /\ riskState' = rs
        /\ output' = [fn |-> "checkPreTradeRisk", tradeSizeSol |-> tradeSizeSol,
                      at |-> now, risk |-> rs,
                      result |-> checkPreTradeRisk(rs, tradeSizeSol, Cfg)]
  /\ UNCHANGED << now, positions, orders, incidents, decisions, botState, market,
                  evaluationQueue, isProcessing, drain, ticks, tpFired, input >>

InitFrom(histories) ==
  /\ now = StartTime
  /\ \E h \in histories :
       /\ riskState = h.risk
       /\ positions = h.positions
       /\ orders = h.orders
  /\ incidents = <<>>
  /\ decisions = <<>>
  /\ botState = "RUNNING"
  /\ market = [m \in Mints |-> GoodFeatures]
  /\ evaluationQueue = <<>>
  /\ isProcessing = FALSE
  /\ drain = NoFrame
  /\ ticks = [k \in TickIds |-> NoFrame]
  /\ tpFired = [i \in 1..Len(positions) |-> <<>>]
  /\ input = NoInput
  /\ output = NoInput

InitGovernor == InitFrom(HaltHistories)

NextGovernor ==
  \/ \E sol \in EquityMarks : UpdateEquity(sol)
  \/ AutoHaltTick
  \/ RiskRefreshTick
  \/ DailyResetTick
  \/ KillSwitch
  \/ KillSwitchDeactivate
  \/ AdvanceClock

SpecGovernor == InitGovernor /\ [][NextGovernor]_vars

\* The pre-trade gate under the operator's kill switch and the engine's equity
\* reports, at one instant.
NextGate ==
  \/ \E sol \in EquityMarks : UpdateEquity(sol)
  \/ \E size \in TradeSizes : GateCall(size)
  \/ AutoHaltTick
  \/ KillSwitch
  \/ KillSwitchDeactivate

InitGate == InitFrom(Histories)

SpecGate == InitGate /\ [][NextGate]_vars

\* ------------------------------------------------------------ risk claims
ManualReason == "Manual kill switch activated by operator"

\* C1: while the governor is halted, checkPreTradeRisk refuses every trade
\* size whatever the other counters are, and its reason names the halt check.
C1_HaltedGateBlocks ==
  (output.fn = "checkPreTradeRisk" /\ output.risk.isHalted) =>
     /\ ~output.result.allowed
     /\ "Not halted" \in Range(output.result.reason)

\* a gate call on a halted governor whose six other checks all pass
C1_Witness ==
  /\ output.fn = "checkPreTradeRisk"
  /\ output.risk.isHalted
  /\ output.risk.haltReason = ManualReason
  /\ \A i \in 2..7 : output.result.details[i].passed

\* C2: a runAutoHaltChecks tick on a governor that is not halted halts it for
\* drawdown when |todayDrawdownPct| >= dailyMaxDrawdownPct (equality
\* included), sets resumeAt 24 hours after the activation and emits a
\* CRITICAL incident; below the limit the tick does not halt for drawdown.
C2_DrawdownHalt ==
  [][ (AutoHaltTick /\ ~riskState.isHalted) =>
        IF Abs(riskState.todayDrawdownPct) >= Cfg.dailyMaxDrawdownPct
        THEN /\ riskState'.isHalted
             /\ riskState'.haltReason = "Daily drawdown"
             /\ riskState'.haltedAt = now
             /\ riskState'.resumeAt = riskState'.haltedAt + 24 * HOUR_MS
             /\ \E i \in 1..Len(output'.incidents) :
                  /\ output'.incidents[i].severity = "CRITICAL"
                  /\ output'.incidents[i].category = "DAILY_DRAWDOWN"
             /\ \E i \in (Len(incidents) + 1)..Len(incidents') :
                  incidents'[i].severity = "CRITICAL"
        ELSE /\ riskState'.haltReason # "Daily drawdown"
             /\ riskState'.resumeAt = riskState.resumeAt
             /\ \A i \in 1..Len(output'.incidents) :
                  output'.incidents[i].category # "DAILY_DRAWDOWN" ]_vars

\* a drawdown halt taken at exactly the limit, with its resume time
C2_Witness ==
  /\ riskState.isHalted
  /\ riskState.haltReason = "Daily drawdown"
  /\ Abs(riskState.todayDrawdownPct) = Cfg.dailyMaxDrawdownPct
  /\ riskState.resumeAt = riskState.haltedAt + 24 * HOUR_MS
  /\ output.fn = "broadcast" /\ output.incidents # <<>>

\* C3: a halt for consecutive losses or by the operator is never lifted by
\* resetDailyCounters, whatever halts and deactivations came before.
C3_ResetKeepsManualHalt ==
  [][ ( /\ riskState.isHalted
        /\ riskState.haltReason \in {"consecutive losses", ManualReason}
        /\ DailyResetTick ) => riskState'.isHalted ]_vars

Quiet ==
  /\ incidents = <<>>
  /\ decisions = <<>>
  /\ botState = "RUNNING"
  /\ evaluationQueue = <<>>
  /\ isProcessing = FALSE
  /\ drain = NoFrame
  /\ ticks = [k \in TickIds |-> NoFrame]
  /\ output = NoInput

\* prices around the thresholds of the default exit rules for an entry at 100
ExitPrices == {74, 75, 80, 100, 109, 110, 127, 128, 150, 165, 170, 175, 200, 250}
ExitHighs == {100, 150, 200, 300}
ExitMinutes == {0, 59, 60, 61}

\* a position as executeBuy creates it under the default configuration,
\* entered at price 100 minutes ago, with its high-water mark and the
\* triggered flags of its levels
ExitPosition(high, minutes, flags, t) ==
  [ HistA.positions[1] EXCEPT
      !.entryPrice = 100,
      !.highWaterMark = high,
      !.entryTime = t - minutes * MINUTE_MS,
      !.takeProfitLevels =
         [i \in 1..Len(DEFAULT_CONFIG.takeProfitLevels) |->
            [pctGain |-> DEFAULT_CONFIG.takeProfitLevels[i].pctGain,
             sellPct |-> DEFAULT_CONFIG.takeProfitLevels[i].sellPct,
             triggered |-> flags[i]]] ]

InitExit ==
  /\ now = StartTime
  /\ riskState = InitialRiskState(DEFAULT_CONFIG)
  /\ positions = <<>>
  /\ orders = <<>>
  /\ tpFired = <<>>
  /\ market = [m \in Mints |-> GoodFeatures]
  /\ Quiet
  /\ \E price \in ExitPrices, high \in ExitHighs, minutes \in ExitMinutes,
        flags \in [1..Len(DEFAULT_CONFIG.takeProfitLevels) -> BOOLEAN] :
       /\ high >= price
       /\ input = [fn |-> "checkExitConditions",
                   position |-> ExitPosition(high, minutes, flags, StartTime),
                   currentPrice |-> price]

\* checkExitConditions(position, currentPrice, config)
ExitCall ==
  /\ input.fn = "checkExitConditions"
  /\ output = NoInput
  /\ output' = [fn |-> "checkExitConditions",
                signal |-> checkExitConditions(input.position, input.currentPrice,
                                               DEFAULT_CONFIG, now)]
  /\ UNCHANGED << now, riskState, positions, orders, incidents, decisions, botState,
                  market, evaluationQueue, isProcessing, drain, ticks, tpFired, input >>

SpecExit == InitExit /\ [][ExitCall]_vars

\* C8: checkExitConditions returns one signal at most, the first that holds
\* of STOP_LOSS (pnl% <= -stopLossPct, sell 100), TAKE_PROFIT (first
\* untriggered level reached, sell its sellPct), TRAILING_STOP, TIME_STOP
\* (held >= the limit and pnl% < 10, sell 100), and none exactly when none
\* of the four holds.
C8_ExitPriority ==
  output.fn = "checkExitConditions" =>
    LET pos == input.position
        price == input.currentPrice
        c == DEFAULT_CONFIG
        gain == (price - pos.entryPrice) * 100 * PCT_SCALE
        stop == gain <= (0 - c.stopLossPct) * pos.entryPrice
        reached == {i \in 1..Len(pos.takeProfitLevels) :
                      /\ ~pos.takeProfitLevels[i].triggered
                      /\ gain >= pos.takeProfitLevels[i].pctGain * pos.entryPrice}
        trail == /\ price * 100 * PCT_SCALE
                      <= pos.highWaterMark * (100 * PCT_SCALE - c.trailingStopPct)
                 /\ gain > 0
        held == /\ now - pos.entryTime >= c.timeStopMinutes * MINUTE_MS
                /\ gain < 10 * PCT_SCALE * pos.entryPrice
        sig == output.signal
    IN /\ sig.type \in {"none", "STOP_LOSS", "TAKE_PROFIT", "TRAILING_STOP", "TIME_STOP"}
       /\ stop => sig.type = "STOP_LOSS" /\ sig.sellPct = 100
       /\ (~stop /\ reached # {}) =>
            /\ sig.type = "TAKE_PROFIT"
            /\ sig.level \in reached
            /\ \A j \in reached : sig.level <= j
            /\ sig.sellPct = pos.takeProfitLevels[sig.level].sellPct
       /\ (~stop /\ reached = {} /\ trail) =>
            sig.type = "TRAILING_STOP" /\ sig.sellPct = 100
       /\ (~stop /\ reached = {} /\ ~trail /\ held) =>
            sig.type = "TIME_STOP" /\ sig.sellPct = 100
       /\ (sig = NoSignal) <=> ~(stop \/ reached # {} \/ trail \/ held)

\* the second take-profit level chosen while the trailing stop holds as well
C8_Witness ==
  /\ output.fn = "checkExitConditions"
  /\ output.signal.type = "TAKE_PROFIT"
  /\ output.signal.level = 2
  /\ input.position.takeProfitLevels[1].triggered
  /\ input.currentPrice * 100 * PCT_SCALE
       <= input.position.highWaterMark * (100 * PCT_SCALE - DEFAULT_CONFIG.trailingStopPct)

\* ------------------------------------------- decision cards, one evaluation
\* feature snapshots on either side of every threshold of the filters
EvalProfiles ==
  { [ GoodFeatures EXCEPT !.regimeScore = regime, !.liquidityDepthSol = depth,
                          !.top10HolderPct = top10, !.suspiciousCreator = creator,
                          !.mintAuthorityRevoked = revoked,
                          !.uniqueBuyersPerMin = buyers,
                          !.estimatedSlippageBps = slippage,
                          !.netBuyPressure = pressure, !.rpcLatencyMs = latency ] :
      regime \in {Cfg.regimeScoreThreshold - 1, Cfg.regimeScoreThreshold},
      depth \in {Cfg.minLiquidityDepthSol - 1, Cfg.minLiquidityDepthSol},
      top10 \in {Cfg.maxTop10HolderPct, Cfg.maxTop10HolderPct + 1},
      creator \in BOOLEAN, revoked \in BOOLEAN,
      buyers \in {Cfg.minUniqueBuyersPerMin - 1, Cfg.minUniqueBuyersPerMin},
      slippage \in {Cfg.maxEstimatedSlippageBps, Cfg.maxEstimatedSlippageBps + 1},
      pressure \in {0, 1}, latency \in {1999, 2000} }

\* the tokens asked about: not graduated, just graduated, graduated too long ago
EvalTokens ==
  { [mint |-> "A", graduatedAt |-> NULL, raydiumPoolAddress |-> FALSE],
    [mint |-> "A", graduatedAt |-> StartTime, raydiumPoolAddress |-> TRUE],
    [mint |-> "A", graduatedAt |-> StartTime - 700000, raydiumPoolAddress |-> TRUE] }

InitEval ==
  /\ now = StartTime
  /\ \E h \in {HistEmpty, HistA, HistALost} :
       /\ positions = h.positions
       /\ orders = h.orders
       /\ \E halted \in BOOLEAN :
            riskState = IF halted THEN activateKillSwitch(h.risk, ManualReason, StartTime)
                        ELSE h.risk
  /\ tpFired = [i \in 1..Len(positions) |-> <<>>]
  /\ \E profile \in EvalProfiles : market = [m \in Mints |-> profile]
  /\ Quiet
  /\ \E token \in EvalTokens : input = [fn |-> "evaluateToken", token |-> token]

\* evaluateToken(token, config, riskState, openPositions), with its
\* saveDecision
EvaluateCall ==
  /\ input.fn = "evaluateToken"
  /\ output = NoInput
  /\ LET card == evaluateToken(input.token, Cfg, riskState, getOpenPositions(positions),
                               market, now, Len(decisions) + 1)
     IN /\ output' = [fn |-> "evaluateToken", card |-> card]
        /\ decisions' = saveDecision(decisions, card)
  /\ UNCHANGED << now, riskState, positions, orders, incidents, botState, market,
                  evaluationQueue, isProcessing, drain, ticks, tpFired, input >>

SpecEval == InitEval /\ [][EvaluateCall]_vars

\* C10: the verdict is TRADE exactly when every check of the card is PASS and
\* SKIP otherwise; the card has an execution plan and a risk impact exactly
\* when it is TRADE; every SKIP card has a FAIL check with a reason.
C10_VerdictIffAllPass ==
  output.fn = "evaluateToken" =>
    LET card == output.card
        allPass == \A i \in 1..Len(card.filters) : card.filters[i].result = "PASS"
    IN /\ card.verdict \in {"TRADE", "SKIP"}
       /\ (card.verdict = "TRADE") <=> allPass
       /\ (card.executionPlan # Undefined) <=> (card.verdict = "TRADE")
       /\ (card.riskImpact # Undefined) <=> (card.verdict = "TRADE")
       /\ card.verdict = "SKIP" =>
            \E i \in 1..Len(card.filters) :
               /\ card.filters[i].result = "FAIL"
               /\ card.filters[i].reason # ""
       /\ decisions # <<>> /\ decisions[Len(decisions)] = card

\* a card skipped for the open position in the token alone
C10_Witness ==
  /\ output.fn = "evaluateToken"
  /\ output.card.verdict = "SKIP"
  /\ \A i \in 1..Len(output.card.filters) :
       (output.card.filters[i].result = "FAIL")
          <=> (output.card.filters[i].name = "No Duplicate Position")

\* ------------------------------------------------- the evaluation queue
\* The ingestion handlers, the queue drain and the operator's commands, with
\* the clock standing still.  Either token may be announced as new; the
\* graduation event is that of token B (the two tokens start alike).
NextQueue ==
  \/ OnGraduation("B")
  \/ \E m \in Mints : OnNewToken(m)
  \/ BuyResolve
  \/ KillSwitch
  \/ KillSwitchDeactivate
  \/ \E st \in {"RUNNING", "PAUSED"} : SetBotState(st)

SpecQueue == Init /\ [][NextQueue]_vars

NextHalt ==
  \/ OnNewToken("A")
  \/ BuyResolve
  \/ KillSwitch
  \/ KillSwitchDeactivate
  \/ \E st \in {"RUNNING", "PAUSED"} : SetBotState(st)
  \/ (drain # NoFrame /\ AdvanceClock)

SpecHalt == Init /\ [][NextHalt]_vars

\* C13: a halt does not cancel a buy in flight, and lets no new buy start.
\* A suspended executeBuy ends only by saving its order, halted or not, and
\* a CONFIRMED order comes with its position and its debit of equity; a buy
\* is suspended only by a pass that found the governor not halted and the
\* bot RUNNING.
C13_HaltKeepsInFlightBuy ==
  /\ [][drain # NoFrame /\ drain' # drain =>
          LET order == orders'[Len(orders')]
          IN /\ Len(orders') = Len(orders) + 1
             /\ order.side = "BUY"
             /\ order.decisionCardId = drain.decisionCardId
             /\ order.status = "FAILED" => positions' = positions
             /\ order.status = "CONFIRMED" =>
                  /\ Len(positions') = Len(positions) + 1
                  /\ positions'[Len(positions')].decisionCardId = drain.decisionCardId
                  /\ positions'[Len(positions')].status = "OPEN"
                  /\ riskState'.equitySol = riskState.equitySol - order.amountSol - order.feeSol
                  /\ riskState'.isHalted = riskState.isHalted]_vars
  /\ [][drain' # drain /\ drain' # NoFrame =>
          /\ ~riskState.isHalted /\ botState = "RUNNING"
          /\ decisions'[drain'.decisionCardId].verdict = "TRADE"]_vars

\* a buy evaluated before the halt and CONFIRMED after it, the halt still on
C13_Witness ==
  /\ riskState.isHalted
  /\ \E k \in 1..Len(orders), i \in 1..Len(positions) :
       /\ orders[k].status = "CONFIRMED" /\ orders[k].side = "BUY"
       /\ decisions[orders[k].decisionCardId].timestamp < riskState.haltedAt
       /\ riskState.haltedAt < orders[k].createdAt
       /\ positions[i].decisionCardId = orders[k].decisionCardId
       /\ riskState.equitySol < Cfg.paperStartingEquity

\* --------------------------------------------------- kill switch claims
\* C14: activating the kill switch, by the operator or by runAutoHaltChecks,
\* closes nothing: the step leaves every position and every order as they
\* were, creates no SELL order and leaves equity unchanged.
C14_HaltClosesNothing ==
  [][( /\ riskState'.isHalted
       /\ \/ ~riskState.isHalted
          \/ riskState'.haltedAt # riskState.haltedAt
          \/ riskState'.haltReason # riskState.haltReason
          \/ incidents' # incidents ) =>
       /\ positions' = positions
       /\ orders' = orders
       /\ riskState'.equitySol = riskState.equitySol]_vars

\* halted by the operator and halted automatically, with positions still open
C14_Witness ==
  /\ riskState.isHalted
  /\ \E i \in 1..Len(incidents) : incidents[i].message[2] = ManualReason
  /\ \E i \in 1..Len(incidents) : incidents[i].message[2] # ManualReason
  /\ \E i \in 1..Len(positions) :
       /\ positions[i].status = "OPEN"
       /\ positions[i].remainingTokens = positions[i].totalTokensBought
       /\ positions[i].remainingTokens > 0

\* C15: every activation of the kill switch appends one CRITICAL incident
\* that carries its reason and its time, and the incident store only grows:
\* no step changes or removes a stored incident.
C15_ActivationIncident ==
  [][/\ Len(incidents') >= Len(incidents)
     /\ SubSeq(incidents', 1, Len(incidents)) = incidents
     /\ \A i \in (Len(incidents) + 1)..Len(incidents') :
          /\ incidents'[i].severity = "CRITICAL"
          /\ incidents'[i].category = "KILL_SWITCH"
     /\ ( /\ riskState'.isHalted
          /\ \/ ~riskState.isHalted
             \/ riskState'.haltedAt # riskState.haltedAt
             \/ riskState'.haltReason # riskState.haltReason ) =>
          /\ Len(incidents') = Len(incidents) + 1
          /\ incidents'[Len(incidents')].timestamp = riskState'.haltedAt
          /\ incidents'[Len(incidents')].message = <<"Kill switch: ", riskState'.haltReason>>]_vars

\* a halt for consecutive losses and a halt for drawdown, both in the store
C15_Witness ==
  /\ riskState.isHalted
  /\ \E i, j \in 1..Len(incidents) :
       /\ i < j
       /\ incidents[i].severity = "CRITICAL" /\ incidents[j].severity = "CRITICAL"
       /\ {incidents[i].message[2], incidents[j].message[2]}
            = {"consecutive losses", "Daily drawdown"}

\* ------------------------------------------------------ drawdown claims
\* C16: todayDrawdownPct is the least of 0 and the todayPnlPct values since
\* the last daily reset.  It is never positive and never above the current
\* todayPnlPct; a step that is not the daily reset takes it to the smaller of
\* its old value and the new todayPnlPct, so it never rises; the daily reset
\* sets it to 0.
C16_DrawdownIsRunningMin ==
  /\ [](/\ riskState.todayDrawdownPct <= 0
        /\ riskState.todayDrawdownPct <= riskState.todayPnlPct)
  /\ [][IF DailyResetTick
         THEN riskState'.todayDrawdownPct = 0
         ELSE riskState'.todayDrawdownPct
                = Min(riskState.todayDrawdownPct, riskState'.todayPnlPct)]_vars

\* a loss of the day recovered: the drawdown stays below a P&L back at zero
\* or above
C16_Witness ==
  /\ riskState.todayDrawdownPct < 0
  /\ riskState.todayPnlPct >= 0
  /\ riskState.equitySol >= riskState.startOfDayEquity

\* C17: a halt taken for drawdown carries a resume time 24 hours after its
\* activation; a daily reset made at or after that time lifts it, and a
\* daily reset made before that time leaves it on.
C17_ResetLiftsDrawdownHalt ==
  /\ []((riskState.isHalted /\ riskState.haltReason = "Daily drawdown") =>
          riskState.resumeAt = riskState.haltedAt + 24 * HOUR_MS)
  /\ [][(DailyResetTick /\ riskState.isHalted
          /\ riskState.haltReason = "Daily drawdown") =>
          /\ riskState'.isHalted <=> now < riskState.resumeAt
          /\ riskState'.isHalted => /\ riskState'.haltReason = "Daily drawdown"
                                    /\ riskState'.resumeAt = riskState.resumeAt]_vars

\* the drawdown halt gone at its resume time, the day's counters reset
C17_Witness ==
  /\ ~riskState.isHalted
  /\ riskState.resumeAt = now
  /\ now % DAY_MS < MINUTE_MS
  /\ riskState.startOfDayEquity = riskState.equitySol
  /\ riskState.equitySol * 100 <= Cfg.paperStartingEquity * 85
  /\ riskState.todayDrawdownPct = 0
  /\ Len(incidents) = 1 /\ incidents[1].message[2] = "Daily drawdown"

\* -------------------------------------------------------- trade rate caps
\* Trading days as the queue drain and the monitor leave them: token A bought
\* and, an hour later, sold whole by the time stop at a gain, round after
\* round.  The Midnight days begin with a buy stamped at the first
\* millisecond of the day, the Morning days half an hour later.
Midnight == DAY_MS
Morning == DAY_MS + 30 * MINUTE_MS

MidnightBuy1 == DbBuy(DbEmpty, "A", Midnight)
MidnightSell1 == DbSell(MidnightBuy1, 1, 103, "TIME_STOP", Midnight + HOUR_MS)
MidnightBuy2 == DbBuy(MidnightSell1, "A", Midnight + HOUR_MS)
MidnightSell2 == DbSell(MidnightBuy2, 2, 103, "TIME_STOP", Midnight + 2 * HOUR_MS)
MidnightBuy3 == DbBuy(MidnightSell2, "A", Midnight + 2 * HOUR_MS)
MidnightSell3 == DbSell(MidnightBuy3, 3, 103, "TIME_STOP", Midnight + 3 * HOUR_MS)

MorningBuy1 == DbBuy(DbEmpty, "A", Morning)
MorningSell1 == DbSell(MorningBuy1, 1, 103, "TIME_STOP", Morning + HOUR_MS)
MorningBuy2 == DbBuy(MorningSell1, "A", Morning + HOUR_MS)
MorningSell2 == DbSell(MorningBuy2, 2, 103, "TIME_STOP", Morning + 2 * HOUR_MS)
MorningBuy3 == DbBuy(MorningSell2, "A", Morning + 2 * HOUR_MS)
MorningSell3 == DbSell(MorningBuy3, 3, 103, "TIME_STOP", Morning + 3 * HOUR_MS)

\* each day with the time of its last trade
TradingDays ==
  { [db |-> DbEmpty, at |-> Midnight],
    [db |-> MidnightBuy1, at |-> Midnight],
    [db |-> MidnightSell1, at |-> Midnight + HOUR_MS],
    [db |-> MidnightBuy2, at |-> Midnight + HOUR_MS],
    [db |-> MidnightSell2, at |-> Midnight + 2 * HOUR_MS],
    [db |-> MidnightBuy3, at |-> Midnight + 2 * HOUR_MS],
    [db |-> MidnightSell3, at |-> Midnight + 3 * HOUR_MS],
    [db |-> MorningBuy1, at |-> Morning],
    [db |-> MorningSell1, at |-> Morning + HOUR_MS],
    [db |-> MorningBuy2, at |-> Morning + HOUR_MS],
    [db |-> MorningSell2, at |-> Morning + 2 * HOUR_MS],
    [db |-> MorningBuy3, at |-> Morning + 2 * HOUR_MS],
    [db |-> MorningSell3, at |-> Morning + 3 * HOUR_MS] }

InitRate ==
  /\ \E d \in TradingDays :
       /\ now = d.at
       /\ riskState = d.db.risk
       /\ positions = d.db.positions
       /\ orders = d.db.orders
  /\ incidents = <<>>
  /\ decisions = <<>>
  /\ botState = "RUNNING"
  /\ market = [m \in Mints |-> GoodFeatures]
  /\ evaluationQueue = <<>>
  /\ isProcessing = FALSE
  /\ drain = NoFrame
  /\ ticks = [k \in TickIds |-> NoFrame]
  /\ tpFired = [i \in 1..Len(positions) |-> <<>>]
  /\ input = NoInput
  /\ output = NoInput

\* Date.now() half an hour on
HalfHourLater ==
  /\ now + 30 * MINUTE_MS <= Midnight + (MaxClockSteps + 1) * HOUR_MS
  /\ now' = now + 30 * MINUTE_MS
  /\ UNCHANGED << riskState, positions, orders, incidents, decisions, botState, market,
                  evaluationQueue, isProcessing, drain, ticks, tpFired, input, output >>

NextRate ==
  \/ OnNewToken("A")
  \/ BuyResolve
  \/ HalfHourLater

SpecRate == InitRate /\ [][NextRate]_vars

\* C18: the CONFIRMED BUY orders created in the hour that ends with any one
\* of them are at most maxTradesPerHour, and those created in any one
\* calendar day are at most maxTradesPerDay.
C18_TradeRateCaps ==
  LET buys == SelectSeq(orders, LAMBDA o : o.status = "CONFIRMED" /\ o.side = "BUY")
  IN \A i \in 1..Len(buys) :
       /\ Cardinality({j \in 1..Len(buys) :
                         /\ buys[i].createdAt - HOUR_MS < buys[j].createdAt
                         /\ buys[j].createdAt <= buys[i].createdAt})
            <= Cfg.maxTradesPerHour
       /\ Cardinality({j \in 1..Len(buys) :
                         StartOfDay(buys[j].createdAt) = StartOfDay(buys[i].createdAt)})
            <= Cfg.maxTradesPerDay

\* ---------------------------------------------------- duplicate positions
\* C19: no asset ever has two positions that are not CLOSED.
C19_OnePositionPerAsset ==
  \A i, j \in 1..Len(positions) :
    ( /\ i # j
      /\ positions[i].status # "CLOSED"
      /\ positions[j].status # "CLOSED" ) =>
        positions[i].tokenMint # positions[j].tokenMint


\* --------------------------------------------------- the checks of a card
\* C21: every decision card lists one check for each check of the pipeline,
\* in pipeline order, the final duplicate-position check included whether or
\* not the token has an open position: all cards list the same checks.
C21_SamePipelineChecks ==
  output.fn = "evaluateToken" =>
    [i \in 1..Len(output.card.filters) |-> output.card.filters[i].name]
      = << "Regime Gate", "Minimum Liquidity", "Holder Concentration",
           "Creator Behavior", "Token Permissions", "Buyer Breadth",
           "Buy Distribution", "Execution Risk", "Spread", "Graduation Timing",
           "Buy Pressure", "Risk Limits", "RPC Health", "No Duplicate Position" >>

\* C22: the summary of every card has between one and three sentences; on a
\* SKIP verdict the reasons of the first three failing checks (of all of them
\* when fewer than three failed) stand in it, in pipeline order.
C22_SummaryTopThree ==
  output.fn = "evaluateToken" =>
    LET card == output.card
        bullets == card.summaryBullets
        failed == SelectSeq(card.filters, LAMBDA x : x.result = "FAIL")
        top == [i \in 1..Min(3, Len(failed)) |-> failed[i].reason]
    IN /\ Len(bullets) \in 1..3
       /\ card.verdict = "SKIP" =>
            \E k \in 1..Len(bullets) :
               /\ k + Len(top) - 1 <= Len(bullets)
               /\ SubSeq(bullets, k, k + Len(top) - 1) = top

\* ------------------------------------------------------- the trailing stop
\* C23: TRAILING_STOP is signalled only when the price is at or below
\* highWaterMark * (1 - trailingPct / 100) and the position is in profit
\* (with high-water mark 200 and 15 percent the threshold is 170: price 165
\* triggers, 175 does not); a price at or below both the trailing threshold
\* and the stop-loss threshold always gives STOP_LOSS.
C23_TrailingStopGuard ==
  output.fn = "checkExitConditions" =>
    LET pos == input.position
        price == input.currentPrice
        c == DEFAULT_CONFIG
        gain == (price - pos.entryPrice) * 100 * PCT_SCALE
        belowTrail == price * 100 * PCT_SCALE
                        <= pos.highWaterMark * (100 * PCT_SCALE - c.trailingStopPct)
        belowStop == price * 100 * PCT_SCALE
                       <= pos.entryPrice * (100 * PCT_SCALE - c.stopLossPct)
        allTaken == \A i \in 1..Len(pos.takeProfitLevels) :
                       pos.takeProfitLevels[i].triggered
        sig == output.signal
    IN /\ sig.type = "TRAILING_STOP" =>
            belowTrail /\ gain > 0 /\ sig.sellPct = 100 /\ sig.price = price
       /\ (belowTrail /\ belowStop) => sig.type = "STOP_LOSS"
       /\ (pos.highWaterMark = 200 /\ c.trailingStopPct = 15 * PCT_SCALE /\ allTaken) =>
            /\ price = 165 => sig.type = "TRAILING_STOP"
            /\ price = 175 => sig.type # "TRAILING_STOP"
            /\ belowTrail <=> price <= 170

\* the trailing stop fires at 165 under a high-water mark of 200
C23_Witness ==
  /\ output.fn = "checkExitConditions"
  /\ output.signal.type = "TRAILING_STOP"
  /\ input.position.highWaterMark = 200
  /\ input.currentPrice = 165

\* ------------------------------------------------- simulated failures
\* C24: a simulated execution failure has no side effects.  A step that
\* records a FAILED order records exactly that one order, with an error
\* message, and leaves the position table (so no position is created and the
\* status, remaining, sold and realized P&L of every position stay) and the
\* equity as they were; no step records more than one order.
C24_FailureHasNoSideEffects ==
  [][ /\ Len(orders') <= Len(orders) + 1
      /\ SubSeq(orders', 1, Len(orders)) = orders
      /\ (Len(orders') = Len(orders) + 1 /\ orders'[Len(orders')].status = "FAILED") =>
           /\ orders'[Len(orders')].errorMessage
                \in {"Simulated transaction failure", "Simulated sell failure"}
           /\ orders'[Len(orders')].amountTokens = 0
           /\ positions' = positions
           /\ riskState'.equitySol = riskState.equitySol ]_vars

\* a failed buy and a failed sell on record, the position of the failed sell
\* still whole
C24_Witness ==
  /\ \E i \in 1..Len(orders) : orders[i].side = "BUY" /\ orders[i].status = "FAILED"
  /\ \E i \in 1..Len(orders) :
       /\ orders[i].side = "SELL" /\ orders[i].status = "FAILED"
       /\ \E j \in 1..Len(positions) :
            /\ positions[j].decisionCardId = orders[i].decisionCardId
            /\ positions[j].status = "OPEN"
            /\ positions[j].remainingTokens = positions[j].totalTokensBought
            /\ positions[j].realizedPnlSol = 0

\* ------------------------------------------------------ order idempotency
\* executeBuy: `paper-buy-${plan.outputMint}-${Date.now()}`, taken when the
\* call starts
idempotencyKey(side, mint, t) == << "paper", side, mint, t >>

\* saveOrder's statement on a table whose rows carry their idempotency key:
\* a row with the id is updated in its mutable columns (ON CONFLICT(id) DO
\* UPDATE); otherwise a row with the same idempotency_key violates the UNIQUE
\* constraint, the statement throws and the table stays; otherwise the row is
\* inserted.
InsertOrder(os, order) ==
  IF \E i \in 1..Len(os) : os[i].id = order.id
  THEN LET i == CHOOSE k \in 1..Len(os) : os[k].id = order.id
       IN [ orders |-> [os EXCEPT ![i] =
                          [@ EXCEPT !.status = order.status,
                                    !.executedPrice = order.executedPrice,
                                    !.slippageBps = order.slippageBps,
                                    !.feeSol = order.feeSol,
                                    !.errorMessage = order.errorMessage]],
            threw |-> FALSE ]
  ELSE IF \E i \in 1..Len(os) : os[i].idempotencyKey = order.idempotencyKey
  THEN [orders |-> os, threw |-> TRUE]
  ELSE [orders |-> Append(os, order), threw |-> FALSE]

\* Date.now() at the calls: within one millisecond, and one millisecond on
CallTimes == {StartTime, StartTime + 1}

\* the plan of a TRADE card for mint m
BuyPlan(m) ==
  evaluateToken([mint |-> m, graduatedAt |-> NULL, raydiumPoolAddress |-> FALSE],
                Cfg, InitialRiskState(Cfg), <<>>, [x \in Mints |-> GoodFeatures],
                StartTime, 1).executionPlan

\* executeBuy(plan, decisionCardId) at time at, with the order's key: when
\* saveOrder throws, the exception leaves executeBuy before savePosition and
\* updateEquity
SubmitBuy(m, event, at, fail) ==
  /\ at >= now
  /\ LET b == executeBuy(BuyPlan(m), event, Cfg, riskState, positions, orders, at,
                         fail, 1000, 1000)
         order == [idempotencyKey |-> idempotencyKey("buy", m, at)] @@ b.order
         ins == InsertOrder(orders, order)
     IN /\ output' = [fn |-> "executeBuy", order |-> order, threw |-> ins.threw]
        /\ orders' = ins.orders
        /\ positions' = IF ins.threw THEN positions ELSE b.positions
        /\ riskState' = IF ins.threw THEN riskState ELSE b.risk
        /\ tpFired' = IF ~ins.threw /\ Len(b.positions) > Len(positions)
                      THEN Append(tpFired, <<>>) ELSE tpFired
  /\ now' = at
  /\ input' = [fn |-> "executeBuy", mint |-> m, decisionCardId |-> event]
  /\ UNCHANGED << incidents, decisions, botState, market, evaluationQueue,
                  isProcessing, drain, ticks >>

NextIdem ==
  \E m \in Mints, event \in 1..2, at \in CallTimes, fail \in BOOLEAN :
     SubmitBuy(m, event, at, fail)

SpecIdem == Init /\ [][NextIdem]_vars

\* C25: two orders built from the same (side, asset, originating event) carry
\* the same idempotency key and the second insert is rejected as a duplicate,
\* as a no-op and not as an error, with the stored orders, the positions and
\* the equity unchanged; two orders that differ only in their originating
\* event carry different keys and are both accepted.
C25_OrderIdempotency ==
  /\ \A i, j \in 1..Len(orders) :
       (i # j /\ orders[i].side = orders[j].side
              /\ orders[i].tokenMint = orders[j].tokenMint) =>
         /\ orders[i].decisionCardId # orders[j].decisionCardId
         /\ orders[i].idempotencyKey # orders[j].idempotencyKey
  /\ output.fn = "executeBuy" =>
       /\ ~output.threw
       /\ (\A i \in 1..Len(orders) : orders[i] # output.order) =>
            \E i \in 1..Len(orders) :
               /\ orders[i].side = output.order.side
               /\ orders[i].tokenMint = output.order.tokenMint
               /\ orders[i].decisionCardId = output.order.decisionCardId

\* ------------------------------------------------------- the regime score
\* computeRegimeFeatures with the launch sub-score left uncapped
computeRegimeFeatures_NoCap(launches, buyVolume, graduations, config) ==
  LET launchScore == 150 * launches
      volumeScore == Min(8 * buyVolume, 4000)
      gradScore == Min(600 * graduations, 3000)
      regimeScore == RoundDiv(launchScore + volumeScore + gradScore, 100)
  IN [ pumpfunLaunchRate |-> launches,
       pumpfunVolumeProxy |-> buyVolume,
       marketRiskOn |-> regimeScore >= config.regimeScoreThreshold,
       regimeScore |-> regimeScore,
       regime |-> IF regimeScore >= 70 THEN "MANIA"
                  ELSE IF regimeScore >= config.regimeScoreThreshold THEN "NORMAL"
                  ELSE "COLD" ]

\* computeRegimeFeatures on the window's counts: launches, the summed BUY
\* volume (whole SOL) and graduations.  The three sub-scores are kept in
\* hundredths: min(launches / 20, 1) * 30 is 150 per launch up to 3000,
\* min(volume / 500, 1) * 40 is 8 per SOL up to 4000, min(graduations / 5, 1)
\* * 30 is 600 per graduation up to 3000; Math.round of their sum.
computeRegimeFeatures(launches, buyVolume, graduations, config) ==
  LET launchScore == Min(150 * launches, 3000)
      volumeScore == Min(8 * buyVolume, 4000)
      gradScore == Min(600 * graduations, 3000)
      regimeScore == RoundDiv(launchScore + volumeScore + gradScore, 100)
  IN [ pumpfunLaunchRate |-> launches,
       pumpfunVolumeProxy |-> buyVolume,
       marketRiskOn |-> regimeScore >= config.regimeScoreThreshold,
       regimeScore |-> regimeScore,
       regime |-> IF regimeScore >= 70 THEN "MANIA"
                  ELSE IF regimeScore >= config.regimeScoreThreshold THEN "NORMAL"
                  ELSE "COLD" ]

\* window counts around the caps of the three sub-scores, and the thresholds
\* an operator may configure (REGIME_THRESHOLD) on the 0-100 scale
RegimeLaunches == {0, 1, 10, 19, 20, 25, 100}
RegimeVolumes == {0, 6, 200, 499, 500, 600, 5000}
RegimeGraduations == {0, 1, 3, 5, 8, 50}
RegimeThresholds == {0, 40, 70, 100}

InitRegime ==
  /\ now = StartTime
  /\ riskState = InitialRiskState(Cfg)
  /\ positions = <<>>
  /\ orders = <<>>
  /\ tpFired = <<>>
  /\ market = [m \in Mints |-> GoodFeatures]
  /\ Quiet
  /\ \E l \in RegimeLaunches, v \in RegimeVolumes, g \in RegimeGraduations,
        th \in RegimeThresholds :
       input = [fn |-> "computeRegimeFeatures", launches |-> l, buyVolume |-> v,
                graduations |-> g, regimeScoreThreshold |-> th]

\* computeRegimeFeatures(config)
RegimeCall ==
  /\ input.fn = "computeRegimeFeatures"
  /\ output = NoInput
  /\ output' = [fn |-> "computeRegimeFeatures",
                regime |-> computeRegimeFeatures(
                             input.launches, input.buyVolume, input.graduations,
                             [Cfg EXCEPT !.regimeScoreThreshold =
                                           input.regimeScoreThreshold])]
  /\ UNCHANGED << now, riskState, positions, orders, incidents, decisions, botState,
                  market, evaluationQueue, isProcessing, drain, ticks, tpFired, input >>

SpecRegime == InitRegime /\ [][RegimeCall]_vars

\* C26: for all non-negative launch, volume and graduation counts the regime
\* score is an integer in [0, 100]; the regime is MANIA if score >= 70, NORMAL
\* if score >= the configured threshold, else COLD; zero launches, volume and
\* graduations give COLD, (25, 600, 8) gives a score >= 70 and (10, 200, 3)
\* gives 40 <= score < 70.
C26_RegimeScore ==
  output.fn = "computeRegimeFeatures" =>
    LET r == output.regime
        counts == << input.launches, input.buyVolume, input.graduations >>
    IN /\ r.regimeScore \in 0..100
       /\ r.regime = IF r.regimeScore >= 70 THEN "MANIA"
                     ELSE IF r.regimeScore >= input.regimeScoreThreshold THEN "NORMAL"
                     ELSE "COLD"
       /\ counts = << 0, 0, 0 >> => r.regime = "COLD"
       /\ counts = << 25, 600, 8 >> => r.regimeScore >= 70
       /\ counts = << 10, 200, 3 >> => r.regimeScore >= 40 /\ r.regimeScore < 70

\* C26, amended: as above, except that zero launches, volume and graduations
\* give the score 0, which is COLD exactly when the configured threshold is
\* above 0.
C26_RegimeScoreAmended ==
  output.fn = "computeRegimeFeatures" =>
    LET r == output.regime
        counts == << input.launches, input.buyVolume, input.graduations >>
    IN /\ r.regimeScore \in 0..100
       /\ r.regime = IF r.regimeScore >= 70 THEN "MANIA"
                     ELSE IF r.regimeScore >= input.regimeScoreThreshold THEN "NORMAL"
                     ELSE "COLD"
       /\ counts = << 0, 0, 0 >> =>
            /\ r.regimeScore = 0
            /\ (r.regime = "COLD") <=> (input.regimeScoreThreshold > 0)
       /\ counts = << 25, 600, 8 >> => r.regimeScore >= 70
       /\ counts = << 10, 200, 3 >> => r.regimeScore >= 40 /\ r.regimeScore < 70

\* no activity under the default threshold: score 0, COLD
C26_Witness ==
  /\ output.fn = "computeRegimeFeatures"
  /\ << input.launches, input.buyVolume, input.graduations >> = << 0, 0, 0 >>
  /\ input.regimeScoreThreshold = DEFAULT_CONFIG.regimeScoreThreshold
  /\ output.regime.regimeScore = 0
  /\ output.regime.regime = "COLD"

\* -------------------------------------------------- the slippage estimate
\* the estimate with the ratio rounded before it is scaled to basis points
estimateSlippageBps_RoundFirst(orderSizeSol, liquidityDepthSol) ==
  RoundDiv(orderSizeSol, liquidityDepthSol) * 1000

\* computeExecutionRiskFeatures: Math.round((orderSizeSol / liquidityDepthSol)
\* * 1000), both amounts in hundredths of a SOL
estimateSlippageBps(orderSizeSol, liquidityDepthSol) ==
  RoundDiv(1000 * orderSizeSol, liquidityDepthSol)

\* order sizes from nothing to 5 SOL and depths of 1, 5 and 50 SOL (the depth
\* is Math.max(recentBuys * 5, 1), never below 1 SOL)
SlippageSizes == {0, 1, 2, 3, 5, 10, 20, 50, 100, 500}
SlippageDepths == {100, 500, 5000}

InitSlippage ==
  /\ now = StartTime
  /\ riskState = InitialRiskState(Cfg)
  /\ positions = <<>>
  /\ orders = <<>>
  /\ tpFired = <<>>
  /\ market = [m \in Mints |-> GoodFeatures]
  /\ Quiet
  /\ \E a \in SlippageSizes, b \in SlippageSizes, depth \in SlippageDepths :
       /\ a < b
       /\ input = [fn |-> "estimateSlippageBps", a |-> a, b |-> b,
                   liquidityDepthSol |-> depth]

\* the estimate for two order sizes over the same liquidity
SlippageCall ==
  /\ input.fn = "estimateSlippageBps"
  /\ output = NoInput
  /\ output' = [fn |-> "estimateSlippageBps",
                a |-> estimateSlippageBps(input.a, input.liquidityDepthSol),
                b |-> estimateSlippageBps(input.b, input.liquidityDepthSol)]
  /\ UNCHANGED << now, riskState, positions, orders, incidents, decisions, botState,
                  market, evaluationQueue, isProcessing, drain, ticks, tpFired, input >>

SpecSlippage == InitSlippage /\ [][SlippageCall]_vars

\* C27: for a fixed liquidity depth the slippage estimate is 0 for a
\* zero-size order and strictly increasing in order size: for any two order
\* sizes a < b, estimate(a) < estimate(b).
C27_SlippageStrictlyIncreasing ==
  output.fn = "estimateSlippageBps" =>
    /\ input.a = 0 => output.a = 0
    /\ output.a < output.b

\* C27, amended: the estimate is 0 for a zero-size order and non-decreasing in
\* order size, and strictly increasing for two sizes whose ratios to the
\* depth differ by a basis point of the estimate or more (b - a >= depth / 1000).
C27_SlippageMonotone ==
  output.fn = "estimateSlippageBps" =>
    /\ input.a = 0 => output.a = 0
    /\ output.a <= output.b
    /\ 1000 * (input.b - input.a) >= input.liquidityDepthSol => output.a < output.b

\* 0.1 SOL and 5 SOL over a depth of 50 SOL: 2 and 100 basis points
C27_Witness ==
  /\ output.fn = "estimateSlippageBps"
  /\ input = [fn |-> "estimateSlippageBps", a |-> 10, b |-> 500,
              liquidityDepthSol |-> 5000]
  /\ output.a = 2
  /\ output.b = 100

\* ------------------------------------------------- the slippage of a buy
\* the plan's estimate, the configured multiplier (thousandths, 1500 is the
\* default 1.5) and the draw 0.8 + Math.random() * 0.4 (thousandths)
PlanSlippages == {0, 1, 50, 100, 300}
SlippageMultipliers == {1000, 1001, 1100, 1250, 1500, 2000}
SlippageJitters == {800, 1000, 1199}

InitPaperBuy ==
  /\ now = StartTime
  /\ riskState = InitialRiskState(Cfg)
  /\ positions = <<>>
  /\ orders = <<>>
  /\ tpFired = <<>>
  /\ market = [m \in Mints |-> GoodFeatures]
  /\ Quiet
  /\ \E base \in PlanSlippages, mult \in SlippageMultipliers :
       input = [fn |-> "paperBuy",
                plan |-> [BuyPlan("A") EXCEPT !.estimatedSlippageBps = base],
                paperSlippageMultiplier |-> mult]

\* executeBuy(plan, decisionCardId) with its three random draws
PaperBuyCall ==
  /\ input.fn = "paperBuy"
  /\ output = NoInput
  /\ \E fail \in BOOLEAN, jitter \in SlippageJitters, fillRatio \in FillRatios :
       LET b == executeBuy(input.plan, 1,
                           [Cfg EXCEPT !.paperSlippageMultiplier =
                                         input.paperSlippageMultiplier],
                           riskState, positions, orders, now, fail, jitter, fillRatio)
       IN /\ output' = [fn |-> "paperBuy", order |-> b.order, jitter |-> jitter]
          /\ orders' = b.orders
          /\ positions' = b.positions
          /\ riskState' = b.risk
          /\ tpFired' = IF Len(b.positions) > Len(positions)
                        THEN Append(tpFired, <<>>) ELSE tpFired
  /\ UNCHANGED << now, incidents, decisions, botState, market, evaluationQueue,
                  isProcessing, drain, ticks, input >>

SpecPaperBuy == InitPaperBuy /\ [][PaperBuyCall]_vars

\* C28: in every successful simulated buy the realized slippage recorded on
\* the order is at least the plan's estimated slippage whenever the
\* configured slippage multiplier exceeds 1.0, for every value of the jitter
\* factor in [0.8, 1.2).
C28_RealizedSlippageAtLeastEstimate ==
  (output.fn = "paperBuy" /\ output.order.status = "CONFIRMED"
     /\ input.paperSlippageMultiplier > 1000) =>
    /\ orders[Len(orders)] = output.order
    /\ output.order.slippageBps >= input.plan.estimatedSlippageBps

\* ------------------------------------------- the gate's counter snapshot
\* refreshRiskCounters with its catch: reads is the number of store reads
\* (getOpenPositions, getTodayTradeCount, getHourTradeCount,
\* getConsecutiveLosses, in this order) that return before one throws, 4 when
\* none does.  The assignments made before the throw stay, the others are
\* skipped, and the exception is swallowed.
refreshRiskCountersReading(rs, ps, os, t, reads) ==
  LET open == getOpenPositions(ps)
      exposure == SumSeq([i \in 1..Len(open) |-> open[i].entryAmountSol])
      rs1 == IF reads >= 1
             THEN [rs EXCEPT !.openPositionCount = Len(open),
                             !.currentExposureSol = exposure,
                             !.currentExposurePct =
                                 IF rs.equitySol > 0 THEN Pct(exposure, rs.equitySol)
                                 ELSE 0]
             ELSE rs
      rs2 == IF reads >= 2
             THEN [rs1 EXCEPT !.todayTradeCount = getTodayTradeCount(os, t)] ELSE rs1
      rs3 == IF reads >= 3
             THEN [rs2 EXCEPT !.hourTradeCount = getHourTradeCount(os, t)] ELSE rs2
  IN IF reads >= 4
     THEN [rs3 EXCEPT !.consecutiveLosses = getConsecutiveLosses(ps)] ELSE rs3

\* checkPreTradeRisk(tradeSizeSol, config) when the store may fail a read
GateCallReading(tradeSizeSol, reads) ==
  /\ LET rs == refreshRiskCountersReading(riskState, positions, orders, now, reads)
     IN /\ riskState' = rs
        /\ output' = [fn |-> "checkPreTradeRisk", tradeSizeSol |-> tradeSizeSol,
                      at |-> now, risk |-> rs, reads |-> reads,
                      result |-> checkPreTradeRisk(rs, tradeSizeSol, Cfg)]
  /\ UNCHANGED << now, positions, orders, incidents, decisions, botState, market,
                  evaluationQueue, isProcessing, drain, ticks, tpFired, input >>

\* the gate and the engine's equity reports over the trade histories, whose
\* riskState holds the counters of the last refresh before the latest trade
NextGateReading ==
  \/ \E sol \in EquityMarks : UpdateEquity(sol)
  \/ \E size \in TradeSizes, reads \in 0..4 : GateCallReading(size, reads)

SpecGateReading == InitGate /\ [][NextGateReading]_vars

\* C29: every checkPreTradeRisk call evaluates its conditions on counters
\* (exposure, open-position count, hour and day trade counts, consecutive
\* losses) re-read from the store during that same call, never on values left
\* from an earlier tick, also when a store read fails.
C29_GateReadsFreshCounters ==
  output.fn = "checkPreTradeRisk" =>
    LET open == getOpenPositions(positions)
        exposure == SumSeq([i \in 1..Len(open) |-> open[i].entryAmountSol])
        fresh == [output.risk EXCEPT
                    !.openPositionCount = Len(open),
                    !.currentExposureSol = exposure,
                    !.currentExposurePct =
                        IF output.risk.equitySol > 0
                        THEN Pct(exposure, output.risk.equitySol) ELSE 0,
                    !.todayTradeCount = getTodayTradeCount(orders, output.at),
                    !.hourTradeCount = getHourTradeCount(orders, output.at),
                    !.consecutiveLosses = getConsecutiveLosses(positions)]
    IN /\ output.risk = fresh
       /\ output.result.details = RiskChecks(fresh, output.tradeSizeSol, Cfg)

\* ------------------------------------------- the stored high-water mark
\* the prices the monitor's for loop observes up to its first await or the
\* end: one entry per position it reaches, with the price drawn for it
RECURSIVE MonitorObserved(_, _, _)
MonitorObserved(snap, fs, t) ==
  IF snap = <<>> THEN <<>>
  ELSE LET pos == Head(snap)
           currentPrice == (pos.currentPrice * Head(fs)) \div 1000
           pos2 == [ pos EXCEPT
                       !.highWaterMark = IF currentPrice > @ THEN currentPrice ELSE @,
                       !.currentPrice = currentPrice,
                       !.unrealizedPnlPct = Pct(currentPrice - pos.entryPrice, pos.entryPrice),
                       !.unrealizedPnlSol = pos.remainingTokens * (currentPrice - pos.entryPrice) ]
           exitSignal == checkExitConditions(pos2, currentPrice, Cfg, t)
           seen == [id |-> pos.id, price |-> currentPrice]
       IN IF exitSignal # NoSignal /\ Cfg.mode = "PAPER"
          THEN << seen >>
          ELSE << seen >> \o MonitorObserved(Tail(snap), Tail(fs), t)

\* price draws of the observed monitor: those of PriceFactors and a rise
\* that stays below the first take-profit level
ObservedFactors == PriceFactors \cup {1020}

\* the setInterval callback of the position monitor, started, with the prices
\* it observed noted in output
MonitorTickObserved ==
  /\ botState = "RUNNING"
  /\ Len(orders) + Cardinality({j \in TickIds : ticks[j] # NoFrame}) < MaxOrders
  /\ \E k \in TickIds :
       /\ ticks[k] = NoFrame
       /\ \A j \in TickIds : j < k => ticks[j] # NoFrame
       /\ LET snap == getOpenPositions(positions)
          IN \E fs \in [1..Len(snap) -> ObservedFactors] :
               /\ ticks' = [ticks EXCEPT ![k] = MonitorLoop(snap, fs, now)]
               /\ output' = [fn |-> "monitorTick", tick |-> k,
                             observed |-> MonitorObserved(snap, fs, now)]
  /\ UNCHANGED << now, riskState, positions, orders, incidents, decisions, botState,
                  market, evaluationQueue, isProcessing, drain, tpFired, input >>

\* The position monitor, one callback at a time, with its observations noted.
NextMonitorObserved ==
  \/ OnNewToken("A")
  \/ BuyResolve
  \/ ((\A k \in TickIds : ticks[k] = NoFrame) /\ MonitorTickObserved)
  \/ \E k \in TickIds : SellResolve(k)

SpecMonitorObserved == Init /\ [][NextMonitorObserved]_vars

\* C30: for every open position the stored high-water mark is the highest
\* price the monitor has observed since entry: it never decreases from one
\* step to the next, and once a tick has ended it is at least the price that
\* tick observed for the position, whether or not the tick fired an exit signal.
C30_StoredHighWaterMark ==
  /\ [][\A i \in 1..Len(positions) :
          positions'[i].highWaterMark >= positions[i].highWaterMark]_vars
  /\ []((output.fn = "monitorTick" /\ ticks[output.tick] = NoFrame) =>
          \A j \in 1..Len(output.observed) :
            \A i \in 1..Len(positions) :
              (positions[i].id = output.observed[j].id /\ positions[i].status = "OPEN")
                => positions[i].highWaterMark >= output.observed[j].price)

\* ------------------------------------------------------- a successful buy
\* C31: a successful executeBuy creates exactly one CONFIRMED BUY order and
\* exactly one new OPEN position with remaining = bought > 0, sold = 0, every
\* take-profit level untriggered, high-water mark equal to the entry price and
\* stop-loss price = entry price * (1 - stopLossPct / 100), and decrements
\* equity by exactly the filled cost plus the fee.
C31_SuccessfulBuy ==
  [][(/\ Len(orders') > Len(orders)
      /\ orders'[Len(orders) + 1].side = "BUY"
      /\ orders'[Len(orders) + 1].status = "CONFIRMED")
     => LET o == orders'[Len(orders) + 1]
            p == positions'[Len(positions')]
        IN /\ Len(orders') = Len(orders) + 1
           /\ Len(positions') = Len(positions) + 1
           /\ \A i \in 1..Len(positions) : positions'[i] = positions[i]
           /\ p.tokenMint = o.tokenMint
           /\ p.status = "OPEN"
           /\ p.remainingTokens = p.totalTokensBought
           /\ p.totalTokensBought = o.amountTokens
           /\ p.totalTokensBought > 0
           /\ p.totalTokensSold = 0
           /\ Len(p.takeProfitLevels) = Len(Cfg.takeProfitLevels)
           /\ \A l \in 1..Len(p.takeProfitLevels) : ~p.takeProfitLevels[l].triggered
           /\ p.entryPrice = o.executedPrice
           /\ p.highWaterMark = p.entryPrice
           /\ p.stopLossPrice =
                (p.entryPrice * (100 * PCT_SCALE - Cfg.stopLossPct)) \div (100 * PCT_SCALE)
           /\ riskState'.equitySol = riskState.equitySol - o.amountSol - o.feeSol
    ]_vars

\* a half-filled buy is confirmed, its position open and its cost and fee debited
C31_Witness ==
  \E i \in 1..Len(orders) :
    /\ orders[i].side = "BUY" /\ orders[i].status = "CONFIRMED"
    /\ orders[i].feeSol > 0
    /\ \E j \in 1..Len(positions) :
         /\ positions[j].status = "OPEN"
         /\ positions[j].entryAmountSol = orders[i].amountSol
         /\ positions[j].remainingTokens = orders[i].amountTokens
         /\ positions[j].highWaterMark = positions[j].entryPrice
    /\ Len(orders) = 1
    /\ riskState.equitySol = InitialRiskState(Cfg).equitySol - orders[i].amountSol - orders[i].feeSol

\* ------------------------------------------------------- the daily reset
\* C32: resetDailyCounters sets startOfDayEquity to the current equity and
\* zeroes todayPnlSol, todayPnlPct, todayDrawdownPct and todayTradeCount, and
\* leaves equity, exposure, open-position count, hourTradeCount and
\* consecutiveLosses unchanged; the halt status is unchanged unless a resume
\* timestamp has elapsed.
C32_DailyResetFrame ==
  [][DailyResetTick =>
       /\ riskState'.startOfDayEquity = riskState.equitySol
       /\ riskState'.todayPnlSol = 0
       /\ riskState'.todayPnlPct = 0
       /\ riskState'.todayDrawdownPct = 0
       /\ riskState'.todayTradeCount = 0
       /\ riskState'.equitySol = riskState.equitySol
       /\ riskState'.currentExposureSol = riskState.currentExposureSol
       /\ riskState'.currentExposurePct = riskState.currentExposurePct
       /\ riskState'.openPositionCount = riskState.openPositionCount
       /\ riskState'.hourTradeCount = riskState.hourTradeCount
       /\ riskState'.consecutiveLosses = riskState.consecutiveLosses
       /\ (riskState.resumeAt = NULL \/ now < riskState.resumeAt) =>
            /\ riskState'.isHalted = riskState.isHalted
            /\ riskState'.haltReason = riskState.haltReason
            /\ riskState'.haltedAt = riskState.haltedAt
            /\ riskState'.resumeAt = riskState.resumeAt
       /\ (riskState.resumeAt # NULL /\ now >= riskState.resumeAt) =>
            ~riskState'.isHalted
    ]_vars

\* a day rebased to a lower equity under a kill switch without a resume time,
\* the counters of the last refresh still in place
C32_Witness ==
  /\ now % DAY_MS < MINUTE_MS
  /\ riskState.startOfDayEquity = riskState.equitySol
  /\ riskState.equitySol < Cfg.paperStartingEquity
  /\ riskState.todayPnlSol = 0 /\ riskState.todayDrawdownPct = 0
  /\ riskState.todayTradeCount = 0
  /\ riskState.hourTradeCount > 0
  /\ riskState.openPositionCount > 0
  /\ riskState.currentExposureSol > 0
  /\ riskState.isHalted /\ riskState.resumeAt = NULL

\* ------------------------------------------------------ the event buffers
EVENT_WINDOW_MS == 5 * MINUTE_MS

\* the clock of the event feed moves in steps of four minutes
EventClockStep == 4 * MINUTE_MS
MaxEventSteps == 4
MaxEvents == 4

EventTypes == {"LAUNCH", "BUY"}

RECURSIVE PruneHead(_, _)
\* while (eventBuffer.length > 0 && eventBuffer[0].timestamp < cutoff) shift()
PruneHead(buf, cutoff) ==
  IF buf # <<>> /\ Head(buf).timestamp < cutoff
  THEN PruneHead(Tail(buf), cutoff) ELSE buf

\* recordEvent(event) at time t, on the two module-level buffers
recordEvent(buffers, event, t) ==
  LET cutoff == t - EVENT_WINDOW_MS * 2
  IN [ eventBuffer |-> PruneHead(Append(buffers.eventBuffer, event), cutoff),
       tokenEvents |-> [buffers.tokenEvents EXCEPT ![event.tokenMint] = Append(@, event)] ]

\* the buffers of engine.ts after module load; a token without a Map entry
\* has the empty list
InitEvents ==
  /\ now = StartTime
  /\ riskState = InitialRiskState(Cfg)
  /\ positions = <<>>
  /\ orders = <<>>
  /\ tpFired = <<>>
  /\ market = [m \in Mints |-> GoodFeatures]
  /\ incidents = <<>>
  /\ decisions = <<>>
  /\ botState = "RUNNING"
  /\ evaluationQueue = <<>>
  /\ isProcessing = FALSE
  /\ drain = NoFrame
  /\ ticks = [k \in TickIds |-> NoFrame]
  /\ input = [fn |-> "recordEvent", recorded |-> 0]
  /\ output = [fn |-> "recordEvent", at |-> StartTime,
               eventBuffer |-> <<>>, tokenEvents |-> [m \in Mints |-> <<>>]]

\* the simulated feed records an event stamped Date.now()
RecordEvent(m, type) ==
  /\ input.recorded < MaxEvents
  /\ LET r == recordEvent(output, [type |-> type, tokenMint |-> m, timestamp |-> now], now)
     IN output' = [fn |-> "recordEvent", at |-> now,
                   eventBuffer |-> r.eventBuffer, tokenEvents |-> r.tokenEvents]
  /\ input' = [input EXCEPT !.recorded = @ + 1]
  /\ UNCHANGED << now, riskState, positions, orders, incidents, decisions, botState,
                  market, evaluationQueue, isProcessing, drain, ticks, tpFired >>

\* time passes between two events of the feed
EventClock ==
  /\ now < StartTime + MaxEventSteps * EventClockStep
  /\ now' = now + EventClockStep
  /\ UNCHANGED << riskState, positions, orders, incidents, decisions, botState, market,
                  evaluationQueue, isProcessing, drain, ticks, tpFired, input, output >>

NextEvents ==
  \/ \E m \in Mints, type \in EventTypes : RecordEvent(m, type)
  \/ EventClock

SpecEvents == InitEvents /\ [][NextEvents]_vars

\* C33: after every recordEvent, neither the global buffer nor any per-asset
\* buffer retains an event whose timestamp is older than twice the 5-minute
\* window.
C33_BuffersBounded ==
  LET cutoff == output.at - EVENT_WINDOW_MS * 2
  IN /\ \A i \in 1..Len(output.eventBuffer) : output.eventBuffer[i].timestamp >= cutoff
     /\ \A m \in Mints : \A i \in 1..Len(output.tokenEvents[m]) :
          output.tokenEvents[m][i].timestamp >= cutoff

\* ------------------------------------------------------- the exposure cap
\* (RISK_PER_TRADE_PCT, MAX_EXPOSURE_PCT) of the environment: the defaults,
\* the values used elsewhere in this module, and one position at a time
ExposureSettings == { <<20, 100>>, <<1000, 2500>>, <<1000, 1000>> }

\* the configuration in force in the exposure specification
ExposureCfg ==
  [Cfg EXCEPT !.riskPerTradePct = input.riskPerTradePct,
              !.maxExposurePct = input.maxExposurePct]

InitExposure ==
  /\ now = StartTime
  /\ riskState = InitialRiskState(Cfg)
  /\ positions = <<>>
  /\ orders = <<>>
  /\ tpFired = <<>>
  /\ market = [m \in Mints |-> GoodFeatures]
  /\ Quiet
  /\ \E c \in ExposureSettings :
       input = [fn |-> "processQueue", riskPerTradePct |-> c[1], maxExposurePct |-> c[2]]

\* one pass of processQueue over a queue holding the new token m, with the
\* wait inside executeBuy: evaluateToken, the gate, the paper buy
ExposureBuy(m) ==
  /\ Len(decisions) < MaxDecisions
  /\ Len(orders) < MaxOrders
  /\ LET token == [mint |-> m, graduatedAt |-> NULL, raydiumPoolAddress |-> FALSE]
         decision == evaluateToken(token, ExposureCfg, riskState,
                                   getOpenPositions(positions), market, now,
                                   Len(decisions) + 1)
         rs2 == refreshRiskCounters(riskState, positions, orders, now)
         riskCheck == IF decision.executionPlan # Undefined
                      THEN checkPreTradeRisk(rs2, decision.executionPlan.amountInSol,
                                             ExposureCfg)
                      ELSE [allowed |-> FALSE]
     IN /\ decisions' = saveDecision(decisions, decision)
        /\ IF decision.verdict = "TRADE" /\ decision.executionPlan # Undefined
           THEN IF riskCheck.allowed /\ ExposureCfg.mode = "PAPER"
                THEN \E fail \in BOOLEAN, jitter \in BuyJitters, fillRatio \in FillRatios :
                       LET b == executeBuy(decision.executionPlan, decision.id,
                                           ExposureCfg, rs2, positions, orders, now,
                                           fail, jitter, fillRatio)
                       IN /\ positions' = b.positions
                          /\ orders' = b.orders
                          /\ riskState' = b.risk
                          /\ tpFired' = IF Len(b.positions) > Len(positions)
                                        THEN Append(tpFired, <<>>) ELSE tpFired
                          /\ output' = [fn |-> "processQueue", allowed |-> TRUE,
                                        order |-> b.order]
                ELSE /\ riskState' = rs2
                     /\ output' = [fn |-> "processQueue", allowed |-> FALSE]
                     /\ UNCHANGED << positions, orders, tpFired >>
           ELSE /\ output' = [fn |-> "processQueue", allowed |-> FALSE]
                /\ UNCHANGED << riskState, positions, orders, tpFired >>
  /\ UNCHANGED << now, incidents, botState, market, evaluationQueue, isProcessing,
                  drain, ticks, input >>

NextExposure == \E m \in Mints : ExposureBuy(m)

SpecExposure == InitExposure /\ [][NextExposure]_vars

InitLedger ==
  /\ now = Midnight
  /\ riskState = InitialRiskState(Cfg)
  /\ positions = <<>>
  /\ orders = <<>>
  /\ tpFired = <<>>
  /\ market = [m \in Mints |-> GoodFeatures]
  /\ Quiet
  /\ input = NoInput

\* setInterval: the daily reset.  The callback runs once a minute and resets
\* while the local time is 00:00, so once in the minute after midnight; input
\* notes that it has run.
LedgerReset ==
  /\ now % DAY_MS < MINUTE_MS
  /\ input = NoInput
  /\ riskState' = resetDailyCounters(riskState, now)
  /\ input' = [fn |-> "resetDailyCounters", at |-> now]
  /\ UNCHANGED << now, positions, orders, incidents, decisions, botState, market,
                  evaluationQueue, isProcessing, drain, ticks, tpFired, output >>

\* The queue drain, the position monitor with up to two callbacks in flight
\* and the daily reset, around midnight.
NextLedger ==
  \/ OnNewToken("A")
  \/ BuyResolve
  \/ (ticks[2] = NoFrame /\ MonitorTick)
  \/ \E k \in TickIds : SellResolve(k)
  \/ LedgerReset

SpecLedger == InitLedger /\ [][NextLedger]_vars

\* the debit of a CONFIRMED BUY order, the credit of a CONFIRMED SELL order
OrderEffect(o) ==
  IF o.status # "CONFIRMED" THEN 0
  ELSE IF o.side = "BUY" THEN 0 - (o.amountSol + o.feeSol)
  ELSE o.amountSol

\* C35: equity is conserved under every interleaving of buys, sells and
\* periodic tasks: equity equals the starting equity minus the filled cost and
\* fee of every CONFIRMED BUY order plus the net proceeds of every CONFIRMED
\* SELL order, and todayPnlSol equals equity minus startOfDayEquity.
C35_EquityConserved ==
  /\ riskState.equitySol =
       Cfg.paperStartingEquity + SumSeq([i \in 1..Len(orders) |-> OrderEffect(orders[i])])
  /\ riskState.todayPnlSol = riskState.equitySol - riskState.startOfDayEquity

\* a buy and two sells confirmed, the day rebased after a fill and another
\* fill after the reset
C35_Witness ==
  /\ Len(SelectSeq(orders, LAMBDA o : o.status = "CONFIRMED" /\ o.side = "SELL")) >= 2
  /\ \E o \in {orders[i] : i \in 1..Len(orders)} : o.status = "CONFIRMED" /\ o.side = "BUY"
  /\ riskState.startOfDayEquity # Cfg.paperStartingEquity
  /\ riskState.todayPnlSol # 0

\* ------------------------------------------ the gate after a drawdown halt
\* The pre-trade gate, the engine's equity reports, the automatic halt, the
\* operator's deactivation and the daily reset, over one midnight.
NextDrawdownGate ==
  \/ \E sol \in EquityMarks : UpdateEquity(sol)
  \/ \E size \in TradeSizes : GateCall(size)
  \/ AutoHaltTick
  \/ KillSwitchDeactivate
  \/ DailyResetTick
  \/ (now = StartTime /\ AdvanceClock)

SpecDrawdownGate == InitGovernor /\ [][NextDrawdownGate]_vars

NextLossGate ==
  \/ \E size \in TradeSizes : GateCall(size)
  \/ KillSwitchDeactivate
  \/ DailyResetTick
  \/ AutoHaltTick
  \/ RiskRefreshTick
  \/ (now = StartTime /\ AdvanceClock)

SpecLossGate == InitGate /\ [][NextLossGate]_vars

OpenHistories == {HistA, HistABLost}

\* The position monitor with the halts: the operator's kill switch and its
\* deactivation, and the automatic halt.
NextHaltMonitor ==
  \/ KillSwitch
  \/ KillSwitchDeactivate
  \/ AutoHaltTick
  \/ MonitorTick
  \/ \E k \in TickIds : SellResolve(k)

SpecHaltMonitor == InitFrom(OpenHistories) /\ [][NextHaltMonitor]_vars

\* C38: while the governor is halted, by an automatic halt or by the
\* operator's kill switch, the position monitor keeps evaluating the exit
\* rules of every open position on its tick: with a position open and a
\* callback free to start, the tick runs its loop.
C38_HaltKeepsExits ==
  ( /\ riskState.isHalted
    /\ getOpenPositions(positions) # <<>>
    /\ \E k \in TickIds : ticks[k] = NoFrame
    /\ Len(orders) + Cardinality({j \in TickIds : ticks[j] # NoFrame}) < MaxOrders )
  => ENABLED MonitorTick

\* ------------------------------------------ a store write failing in a pass
\* DrainLoop when a saveDecision call throws: throwAt counts the evaluations
\* of this stretch up to the one whose INSERT fails (0: none fails).  The
\* token was shifted before its evaluation, no card is stored, the exception
\* leaves the while loop and the finally block clears isProcessing; nothing
\* catches it and nothing calls processQueue again.
RECURSIVE DrainLoopThrowing(_, _, _, _, _, _)
DrainLoopThrowing(q, rs, decs, ps, os, throwAt) ==
  IF q = <<>>
  THEN [queue |-> q, risk |-> rs, decisions |-> decs, frame |-> NoFrame,
        isProcessing |-> FALSE]
  ELSE LET token == Head(q) IN
    IF botState # "RUNNING" THEN DrainLoopThrowing(Tail(q), rs, decs, ps, os, throwAt)
    ELSE IF throwAt = 1
    THEN [queue |-> Tail(q), risk |-> rs, decisions |-> decs, frame |-> NoFrame,
          isProcessing |-> FALSE]
    ELSE
      LET decision == evaluateToken(token, Cfg, rs, getOpenPositions(ps), market, now,
                                    Len(decs) + 1)
          decs2 == saveDecision(decs, decision)
          rest == IF throwAt = 0 THEN 0 ELSE throwAt - 1
      IN IF decision.verdict = "TRADE" /\ decision.executionPlan # Undefined
         THEN LET rs2 == refreshRiskCounters(rs, ps, os, now)
                  riskCheck == checkPreTradeRisk(rs2, decision.executionPlan.amountInSol, Cfg)
              IN IF riskCheck.allowed /\ Cfg.mode = "PAPER"
                 THEN [queue |-> Tail(q), risk |-> rs2, decisions |-> decs2,
                       frame |-> [pc |-> "buyLatency", plan |-> decision.executionPlan,
                                  decisionCardId |-> decision.id],
                       isProcessing |-> TRUE]
                 ELSE DrainLoopThrowing(Tail(q), rs2, decs2, ps, os, rest)
         ELSE DrainLoopThrowing(Tail(q), rs, decs2, ps, os, rest)

ThrowPoints == 0 .. MaxDecisions

\* processQueue() with a store that may fail
processQueueThrowing(q, throwAt) ==
  IF isProcessing
  THEN /\ evaluationQueue' = q
       /\ UNCHANGED << riskState, decisions, drain, isProcessing >>
  ELSE LET r == DrainLoopThrowing(q, riskState, decisions, positions, orders, throwAt)
       IN /\ evaluationQueue' = r.queue
          /\ riskState' = r.risk
          /\ decisions' = r.decisions
          /\ drain' = r.frame
          /\ isProcessing' = r.isProcessing

\* ingestion.on('newToken', ...) with a store that may fail
OnNewTokenThrowing(m) ==
  /\ CanEnqueue
  /\ \E throwAt \in ThrowPoints :
       LET token == [mint |-> m, graduatedAt |-> NULL, raydiumPoolAddress |-> FALSE]
       IN IF Cfg.tradePreGraduation
          THEN processQueueThrowing(Append(evaluationQueue, token), throwAt)
          ELSE UNCHANGED << evaluationQueue, riskState, decisions, drain, isProcessing >>
  /\ UNCHANGED << now, positions, orders, incidents, botState, market, ticks,
                  tpFired, input, output >>

\* the continuation of processQueue after the buy, with a store that may fail
BuyResolveThrowing ==
  /\ drain.pc = "buyLatency"
  /\ \E fail \in BOOLEAN, jitter \in BuyJitters, fillRatio \in FillRatios,
        throwAt \in ThrowPoints :
       LET b == executeBuy(drain.plan, drain.decisionCardId, Cfg, riskState,
                           positions, orders, now, fail, jitter, fillRatio)
           r == DrainLoopThrowing(evaluationQueue, b.risk, decisions, b.positions,
                                  b.orders, throwAt)
       IN /\ positions' = b.positions
          /\ orders' = b.orders
          /\ tpFired' = IF Len(b.positions) > Len(positions)
                        THEN Append(tpFired, <<>>) ELSE tpFired
          /\ evaluationQueue' = r.queue
          /\ riskState' = r.risk
          /\ decisions' = r.decisions
          /\ drain' = r.frame
          /\ isProcessing' = r.isProcessing
  /\ UNCHANGED << now, incidents, botState, market, ticks, input, output >>

NextStranded ==
  \/ \E m \in Mints : OnNewTokenThrowing(m)
  \/ BuyResolveThrowing
  \/ \E st \in {"RUNNING", "PAUSED"} : SetBotState(st)

SpecStranded == Init /\ [][NextStranded]_vars

\* C39: no enqueued token is stranded.  Whenever no drain pass is in progress
\* the evaluation queue is empty, and every enqueued token is eventually
\* dequeued: a token that waits in the queue always has a pass in progress,
\* suspended in a buy, whose continuation takes it out.  This is to hold also
\* when a store write inside the pass fails.
C39_NoTokenStranded ==
  /\ ~isProcessing => evaluationQueue = <<>>
  /\ evaluationQueue # <<>> => drain.pc = "buyLatency"

============================================================================
